---- MODULE Spec2Model ----
(***************************************************************************)
(* A model of components/layout/wrapper.rs: the layout views over the DOM  *)
(* tree (LayoutNode, ThreadSafeLayoutNode), their child iterators, the     *)
(* preorder and postorder traversals, and the checked borrows of the       *)
(* per-node layout data.                                                   *)
(***************************************************************************)
EXTENDS Integers, Sequences, FiniteSets, TLC

\* ------------------------------------------------------------------ bounds
\* Number of DOM nodes of the tree.
MaxNodes == 4
\* Largest number of nodes that differ from "layout data attached, no
\* pseudo-element style resolved" in an initial state.
MaxSpecial == 1
\* Largest number of Ref and RefMut guards the client code holds at a time.
MaxGuards == 2
\* Largest number of attributes of an element.
MaxAttrs == 2

VARIABLES
    parent,        \* DOM: parent[n] is n's parent node, 0 for the root
    layout_data,   \* DOM: layout_data[n], Option<LayoutDataWrapper>
    borrow,        \* DOM: the borrow flag of layout_data[n]'s cell
    aborted,       \* a panic has unwound the task
    start,         \* the handle the client was given
    iter,          \* the client's ThreadSafeLayoutNodeChildrenIterator, Option
    iter_of,       \* the handle children() was called on
    yielded,       \* the Some(..) values next() returned, in order
    ended,         \* next() has returned None
    pre_root,      \* the LayoutNode traverse_preorder() was called on
    pre_stack,     \* LayoutTreeIterator.stack
    pre_out,       \* the nodes the LayoutTreeIterator returned, in order
    root,          \* root[w]: the handle worker w runs traverse_postorder_mut on
    stack,         \* stack[w]: the frames of w's nested traverse_postorder_mut calls
    ret,           \* ret[w]: the value the call w's top frame made has returned
    result,        \* result[w]: the value w's outermost call returned
    log,           \* log[w]: the visitor calls and the returns of w, in order
    touched,       \* touched[w]: the nodes whose layout data w has accessed
    hnd,           \* hnd[w]: the handle the client code of worker w works on
    guards,        \* guards[w][n]: the Ref and RefMut guards w holds on n's data
    panic_in,      \* the panic that aborted the process, Option
    dom,           \* DOM: dom[n], the type and the content of node n
    call           \* the last call of the view's client and its outcome, Option

vars == <<parent, layout_data, borrow, aborted, start, iter, iter_of, yielded,
          ended, pre_root, pre_stack, pre_out, root, stack, ret, result, log,
          touched, hnd, guards, panic_in, dom, call>>

iterVars == <<start, iter, iter_of, yielded, ended>>
preVars == <<pre_root, pre_stack, pre_out>>
postVars == <<root, stack, ret, result, log, touched>>
borrowVars == <<hnd, guards, panic_in>>
viewVars == <<dom, call>>
domVars == <<parent, layout_data, borrow>>

\* What the operations of one component leave alone.
notIter == <<preVars, postVars, borrowVars, viewVars>>
notPre == <<iterVars, postVars, borrowVars, viewVars>>
notPost == <<iterVars, preVars, borrowVars, viewVars>>
notBorrow == <<iterVars, preVars, postVars, viewVars>>
notView == <<iterVars, preVars, postVars, borrowVars>>

Workers == {1, 2}

\* ------------------------------------------------------------- Option<T>
None == <<>>
Some(x) == <<x>>
IsSome(o) == o # <<>>
Unwrap(o) == o[1]

\* The result of a call that may panic.
Ok(v) == [panic |-> FALSE, val |-> v, msg |-> ""]
Panic(m) == [panic |-> TRUE, val |-> None, msg |-> m]

\* The messages of the panics.
AlreadyMutBorrowed == "already mutably borrowed"
AlreadyBorrowed == "already borrowed"
UnwrapNone == "called Option::unwrap() on a None value"
NoLayoutData == "no layout data for this node"
ExplicitPanic == "explicit panic"

\* ------------------------------------------------------------------- DOM
Nodes == DOMAIN parent

SetMin(S) == CHOOSE x \in S : \A y \in S : x <= y
SetMax(S) == CHOOSE x \in S : \A y \in S : x >= y

RECURSIVE AncestorsOrSelf(_, _)
AncestorsOrSelf(p, n) == IF n = 0 THEN {} ELSE {n} \cup AncestorsOrSelf(p, p[n])

\* The ordered rooted trees of n nodes; the nodes are numbered in document
\* order, so that the children of a node are ordered by their numbers.
Trees(n) ==
    {p \in [1..n -> 0..(n - 1)] :
        /\ p[1] = 0
        /\ \A i \in 2..n : p[i] \in AncestorsOrSelf(p, i - 1)}

ChildSet(n) == {m \in Nodes : parent[m] = n}

parent_node_ref(n) == IF parent[n] = 0 THEN None ELSE Some(parent[n])

first_child_ref(n) == IF ChildSet(n) = {} THEN None ELSE Some(SetMin(ChildSet(n)))

last_child_ref(n) == IF ChildSet(n) = {} THEN None ELSE Some(SetMax(ChildSet(n)))

next_sibling_ref(n) ==
    LET later == {m \in Nodes : parent[m] = parent[n] /\ m > n}
    IN IF parent[n] = 0 \/ later = {} THEN None ELSE Some(SetMin(later))

prev_sibling_ref(n) ==
    LET earlier == {m \in Nodes : parent[m] = parent[n] /\ m < n}
    IN IF parent[n] = 0 \/ earlier = {} THEN None ELSE Some(SetMax(earlier))

\* NodeTypeId, with the element types the view has accessors for.
ElementTypeIds ==
    {"Element", "HTMLInputElement", "HTMLTextAreaElement", "HTMLImageElement",
     "HTMLIFrameElement", "HTMLCanvasElement"}
NodeTypeIds == {"Document", "Comment", "Text"} \cup ElementTypeIds

\* Character data and form values, as sequences of characters.
WhitespaceChars == {" ", "\t", "\n", "\f", "\r"}
Strings == {<<>>, <<" ">>, <<"\n", " ">>, <<"a", " ">>, <<"h", "i">>}

\* A node: its type, its character data or form value, its `size` attribute,
\* its image URL, its canvas dimensions and the page ids of its frame.
Node(t, data, size, url, canvas, ids) ==
    [type_id |-> t, data |-> data, size |-> size, url |-> url, canvas |-> canvas,
     ids |-> ids]

DefaultNode == Node("Element", <<>>, None, None, None, None)

NodeOpts ==
    {Node(t, <<>>, None, None, None, None) : t \in {"Document", "Element"}}
    \cup {Node(t, d, None, None, None, None) :
            t \in {"Comment", "Text", "HTMLTextAreaElement"}, d \in Strings}
    \cup {Node("HTMLInputElement", d, Some("20"), None, None, None) : d \in Strings}
    \cup {Node("HTMLImageElement", <<>>, None, u, None, None) : u \in {None, Some("url")}}
    \cup {Node("HTMLCanvasElement", <<>>, None, None,
                 Some([width |-> "300", height |-> "150"]), None)}
    \cup {Node("HTMLIFrameElement", <<>>, None, None, None, i) :
            i \in {None, Some("ids")}}

\* The casts of script::dom::bindings::codegen::InheritTypes.
ElementCast(n) == IF dom[n].type_id \in ElementTypeIds THEN Some(n) ELSE None
TextCast(n) == IF dom[n].type_id = "Text" THEN Some(n) ELSE None
HTMLInputElementCast(n) == IF dom[n].type_id = "HTMLInputElement" THEN Some(n) ELSE None
HTMLTextAreaElementCast(n) == IF dom[n].type_id = "HTMLTextAreaElement" THEN Some(n) ELSE None
HTMLImageElementCast(n) == IF dom[n].type_id = "HTMLImageElement" THEN Some(n) ELSE None
HTMLCanvasElementCast(n) == IF dom[n].type_id = "HTMLCanvasElement" THEN Some(n) ELSE None
HTMLIFrameElementCast(n) == IF dom[n].type_id = "HTMLIFrameElement" THEN Some(n) ELSE None

\* util::str::is_whitespace
is_whitespace(str) == \A i \in DOMAIN str : str[i] \in WhitespaceChars

\* ------------------------------------------------------------ layout data
\* content::T: the keywords normal and none, or Content(items).
ContentNormal == [tag |-> "normal", items |-> <<>>]
ContentNone == [tag |-> "none", items |-> <<>>]
Content(items) == [tag |-> "Content", items |-> items]

\* The computed styles the style collaborator resolves: `display` of the box,
\* the generated `content` and the inherited `white_space`.
ComputedValues(d, c, ws) == [display |-> d, content |-> c, white_space |-> ws]

\* The node's own style, the style of its ::before and the style of its
\* ::after pseudo-element.
NormalStyles == {ComputedValues("block", ContentNormal, "normal")}
BeforeStyles == {ComputedValues("inline", Content(<<"x">>), "normal")}
AfterStyles == {ComputedValues("block", Content(<<>>), "normal")}

\* The layout channels a caller can pass to initialize_layout_data.
Chans == {"chan1", "chan2"}

\* LayoutDataWrapper: chan, shared_data.style and the slots of
\* PrivateLayoutData the views read and write.
LayoutDataWrapper(s, b, a) ==
    [chan |-> Some("chan1"), style |-> s, before_style |-> b, after_style |-> a,
     restyle_damage |-> {}, flags |-> {}]

\* What initialize_layout_data(chan) attaches.
FreshLayoutData(chan) == [LayoutDataWrapper(None, None, None) EXCEPT !.chan = Some(chan)]

StyleOpts(D) == {None} \cup {Some(d) : d \in D}

\* A node before initialize_layout_data, or after it and after style
\* resolution.
LayoutDataOpts ==
    {None} \cup {Some(LayoutDataWrapper(Some(s), b, a)) :
                    s \in NormalStyles,
                    b \in StyleOpts(BeforeStyles), a \in StyleOpts(AfterStyles)}

DefaultLayoutData ==
    Some(LayoutDataWrapper(Some(ComputedValues("block", ContentNormal, "normal")), None, None))

LayoutConfigs(N) ==
    {ld \in [N -> LayoutDataOpts] :
        Cardinality({n \in N : ld[n] # DefaultLayoutData}) <= MaxSpecial}

\* The checked cell of script::dom::node: layout_data() panics when the cell is
\* mutably borrowed, layout_data_mut() when it is borrowed at all.
layout_data_ok(n) == borrow[n] >= 0
layout_data_mut_ok(n) == borrow[n] = 0

\* ------------------------------------------------- ThreadSafeLayoutNode
Normal == [kind |-> "Normal", display |-> "-"]
Before(d) == [kind |-> "Before", display |-> d]
After(d) == [kind |-> "After", display |-> d]

is_before(pseudo) == pseudo.kind = "Before"
is_after(pseudo) == pseudo.kind = "After"

ThreadSafeLayoutNode_new(n) == [node |-> n, pseudo |-> Normal]

new_with_this_lifetime(h, n) == [node |-> n, pseudo |-> Normal]

with_pseudo(h, pseudo) == [node |-> h.node, pseudo |-> pseudo]

borrow_layout_data(h) ==
    IF layout_data_ok(h.node) THEN Ok(layout_data[h.node]) ELSE Panic(AlreadyMutBorrowed)

\* A mutate_layout_data that takes the cell's shared borrow.
mutate_layout_data_AsShared(h) ==
    IF layout_data_ok(h.node) THEN Ok(layout_data[h.node]) ELSE Panic(AlreadyMutBorrowed)

mutate_layout_data(h) ==
    IF layout_data_mut_ok(h.node) THEN Ok(layout_data[h.node]) ELSE Panic(AlreadyBorrowed)

has_before_pseudo(h) ==
    LET r == borrow_layout_data(h)
    IN IF r.panic THEN Panic(r.msg)
       ELSE IF ~IsSome(r.val) THEN Panic(UnwrapNone)
       ELSE Ok(IsSome(Unwrap(r.val).before_style))

has_after_pseudo(h) ==
    LET r == borrow_layout_data(h)
    IN IF r.panic THEN Panic(r.msg)
       ELSE IF ~IsSome(r.val) THEN Panic(UnwrapNone)
       ELSE Ok(IsSome(Unwrap(r.val).after_style))

\* A get_before_display that takes the shared borrow.
get_before_display_Shared(h) ==
    LET r == borrow_layout_data(h)
    IN IF r.panic THEN Panic(r.msg)
       ELSE IF ~IsSome(r.val) THEN Panic(UnwrapNone)
       ELSE IF ~IsSome(Unwrap(r.val).before_style) THEN Panic(UnwrapNone)
       ELSE Ok(Unwrap(Unwrap(r.val).before_style).display)

get_before_display(h) ==
    LET r == mutate_layout_data(h)
    IN IF r.panic THEN Panic(r.msg)
       ELSE IF ~IsSome(r.val) THEN Panic(UnwrapNone)
       ELSE IF ~IsSome(Unwrap(r.val).before_style) THEN Panic(UnwrapNone)
       ELSE Ok(Unwrap(Unwrap(r.val).before_style).display)

get_after_display(h) ==
    LET r == mutate_layout_data(h)
    IN IF r.panic THEN Panic(r.msg)
       ELSE IF ~IsSome(r.val) THEN Panic(UnwrapNone)
       ELSE IF ~IsSome(Unwrap(r.val).after_style) THEN Panic(UnwrapNone)
       ELSE Ok(Unwrap(Unwrap(r.val).after_style).display)

MapNode(h, o) == IF IsSome(o) THEN Some(new_with_this_lifetime(h, Unwrap(o))) ELSE None

\* A first_child that leaves out the ::before position.
first_child_NoBefore(h) ==
    IF h.pseudo # Normal THEN Ok(None)
    ELSE Ok(MapNode(h, first_child_ref(h.node)))

first_child(h) ==
    IF h.pseudo # Normal THEN Ok(None)
    ELSE LET hb == has_before_pseudo(h)
         IN IF hb.panic THEN Panic(hb.msg)
            ELSE IF hb.val
                 THEN LET d == get_before_display(h)
                      IN IF d.panic THEN Panic(d.msg)
                         ELSE Ok(Some(with_pseudo(h, Before(d.val))))
                 ELSE Ok(MapNode(h, first_child_ref(h.node)))

\* A next_sibling that forgets the ::before position.
next_sibling_NoBefore(h) == MapNode(h, next_sibling_ref(h.node))

\* A next_sibling that ends the child list at the ::before position.
next_sibling_StopAtBefore(h) ==
    IF is_before(h.pseudo) THEN None ELSE MapNode(h, next_sibling_ref(h.node))

next_sibling(h) ==
    IF is_before(h.pseudo) THEN MapNode(h, first_child_ref(h.node))
    ELSE MapNode(h, next_sibling_ref(h.node))

\* --------------------------- the accessors of the layout data, as calls
\* The result of an accessor: whether it panicked, the value it returned and
\* the layout data of the node as the call leaves it.
OpOk(v, ld) == [panic |-> FALSE, val |-> v, msg |-> "", ld |-> ld]
OpPanic(h, m) == [panic |-> TRUE, val |-> None, msg |-> m, ld |-> layout_data[h.node]]
OpOf(h, r) == IF r.panic THEN OpPanic(h, r.msg) ELSE OpOk(r.val, layout_data[h.node])

\* The bits of RestyleDamage and of LayoutDataFlags.
DamageBits == {"REFLOW"}
FlagBits == {"HAS_NEWLY_CONSTRUCTED_FLOW"}

borrow_layout_data_unchecked(h) == layout_data[h.node]

flow_debug_id(h) ==
    LET r == borrow_layout_data(h)
    IN IF r.panic THEN OpPanic(h, r.msg)
       ELSE OpOk(IF IsSome(r.val) THEN "debug_id" ELSE "0", r.val)

\* An initialize_layout_data that resets the layout data of every node.
initialize_layout_data_Reset(h, chan) ==
    LET r == mutate_layout_data(h)
    IN IF r.panic THEN OpPanic(h, r.msg)
       ELSE OpOk(None, Some(FreshLayoutData(chan)))

initialize_layout_data(h, chan) ==
    LET r == mutate_layout_data(h)
    IN IF r.panic THEN OpPanic(h, r.msg)
       ELSE OpOk(None, IF IsSome(r.val) THEN r.val ELSE Some(FreshLayoutData(chan)))

get_normal_display(h) ==
    LET r == mutate_layout_data(h)
    IN IF r.panic THEN OpPanic(h, r.msg)
       ELSE IF ~IsSome(r.val) THEN OpPanic(h, UnwrapNone)
       ELSE IF ~IsSome(Unwrap(r.val).style) THEN OpPanic(h, UnwrapNone)
       ELSE OpOk(Unwrap(Unwrap(r.val).style).display, r.val)

restyle_damage(h) ==
    LET r == borrow_layout_data(h)
    IN IF r.panic THEN OpPanic(h, r.msg)
       ELSE IF ~IsSome(r.val) THEN OpPanic(h, UnwrapNone)
       ELSE OpOk(Unwrap(r.val).restyle_damage, r.val)

set_restyle_damage(h, damage) ==
    LET r == mutate_layout_data(h)
    IN IF r.panic THEN OpPanic(h, r.msg)
       ELSE IF ~IsSome(r.val) THEN OpPanic(h, NoLayoutData)
       ELSE OpOk(None, Some([Unwrap(r.val) EXCEPT !.restyle_damage = damage]))

flags(h) ==
    LET d == borrow_layout_data_unchecked(h)
    IN IF ~IsSome(d) THEN OpPanic(h, ExplicitPanic) ELSE OpOk(Unwrap(d).flags, d)

insert_flags(h, new_flags) ==
    LET r == mutate_layout_data(h)
    IN IF r.panic THEN OpPanic(h, r.msg)
       ELSE IF ~IsSome(r.val) THEN OpPanic(h, NoLayoutData)
       ELSE OpOk(None, Some([Unwrap(r.val) EXCEPT !.flags = @ \cup new_flags]))

remove_flags(h, old_flags) ==
    LET r == mutate_layout_data(h)
    IN IF r.panic THEN OpPanic(h, r.msg)
       ELSE IF ~IsSome(r.val) THEN OpPanic(h, NoLayoutData)
       ELSE OpOk(None, Some([Unwrap(r.val) EXCEPT !.flags = @ \ old_flags]))

\* A text_content that reads the before style for every pseudo handle.
text_content_pseudo_AlwaysBefore(h) ==
    LET r == borrow_layout_data(h)
    IN IF r.panic THEN OpPanic(h, r.msg)
       ELSE IF ~IsSome(r.val) THEN OpPanic(h, UnwrapNone)
       ELSE LET style == Unwrap(r.val).before_style
            IN IF ~IsSome(style) THEN OpPanic(h, UnwrapNone)
               ELSE LET c == Unwrap(style).content
                    IN OpOk(IF c.tag = "Content" /\ c.items # <<>> THEN c.items ELSE <<>>,
                            r.val)

\* text_content of a handle whose pseudo is not Normal.
text_content_pseudo(h) ==
    LET r == borrow_layout_data(h)
    IN IF r.panic THEN OpPanic(h, r.msg)
       ELSE IF ~IsSome(r.val) THEN OpPanic(h, UnwrapNone)
       ELSE LET data == Unwrap(r.val)
                style == IF is_before(h.pseudo) THEN data.before_style ELSE data.after_style
            IN IF ~IsSome(style) THEN OpPanic(h, UnwrapNone)
               ELSE LET c == Unwrap(style).content
                    IN OpOk(IF c.tag = "Content" /\ c.items # <<>> THEN c.items ELSE <<>>,
                            r.val)

\* The accessors by name, and the arguments the client code passes.
SideTableOps ==
    {"flow_debug_id", "initialize_layout_data", "get_normal_display",
     "get_before_display", "get_after_display", "has_before_pseudo",
     "has_after_pseudo", "restyle_damage", "set_restyle_damage", "flags",
     "insert_flags", "remove_flags", "text_content"}

OpArgs(op) ==
    CASE op = "initialize_layout_data" -> Chans
      [] op = "set_restyle_damage" -> SUBSET DamageBits
      [] op \in {"insert_flags", "remove_flags"} -> {FlagBits}
      [] OTHER -> {{}}

\* text_content is called here on pseudo handles, the others on any handle.
OpApplies(op, h) == op = "text_content" => h.pseudo # Normal

RunOp(op, h, arg) ==
    CASE op = "flow_debug_id" -> flow_debug_id(h)
      [] op = "initialize_layout_data" -> initialize_layout_data(h, arg)
      [] op = "get_normal_display" -> get_normal_display(h)
      [] op = "get_before_display" -> OpOf(h, get_before_display(h))
      [] op = "get_after_display" -> OpOf(h, get_after_display(h))
      [] op = "has_before_pseudo" -> OpOf(h, has_before_pseudo(h))
      [] op = "has_after_pseudo" -> OpOf(h, has_after_pseudo(h))
      [] op = "restyle_damage" -> restyle_damage(h)
      [] op = "set_restyle_damage" -> set_restyle_damage(h, arg)
      [] op = "flags" -> flags(h)
      [] op = "insert_flags" -> insert_flags(h, arg)
      [] op = "remove_flags" -> remove_flags(h, arg)
      [] op = "text_content" -> text_content_pseudo(h)

\* ------------------------------------- the accessors of the node's content
\* The messages of the panics of the accessors.
NotAnElement == "not an element"
NotAnElementBang == "not an element!"
NotAnInput == "not an input element!"
NotAnImage == "not an image!"
NotAnIframe == "not an iframe element!"
NotText == "not text!"
NoReflowRoot == "layout_parent_node(): This layout has no access to the DOM!"

\* An accessor that leaves the layout data alone returns v, or panics.
Returns(h, v) == OpOk(v, layout_data[h.node])

\* A type_id that does not look at the pseudo-element type.
type_id_IgnorePseudo(h) == Returns(h, Some(dom[h.node].type_id))

type_id(h) ==
    IF h.pseudo # Normal THEN Returns(h, None)
    ELSE Returns(h, Some(dom[h.node].type_id))

is_content(h) ==
    LET t == type_id(h).val
    IN Returns(h, IsSome(t) /\ (Unwrap(t) \in ElementTypeIds \/ Unwrap(t) = "Text"))

as_element(h) ==
    IF IsSome(ElementCast(h.node)) THEN Returns(h, h.node) ELSE OpPanic(h, NotAnElement)

\* StyledNode::style of css::node_style: the style of the handle's position.
style(h) ==
    LET r == borrow_layout_data(h)
    IN IF r.panic THEN Panic(r.msg)
       ELSE IF ~IsSome(r.val) THEN Panic(UnwrapNone)
       ELSE LET data == Unwrap(r.val)
                slot == IF is_before(h.pseudo) THEN data.before_style
                        ELSE IF is_after(h.pseudo) THEN data.after_style
                        ELSE data.style
            IN IF IsSome(slot) THEN Ok(Unwrap(slot)) ELSE Panic(UnwrapNone)

\* An is_ignorable_whitespace that does not look at the white-space value.
is_ignorable_whitespace_AnyWhiteSpace(h) ==
    IF ~IsSome(TextCast(h.node)) THEN Returns(h, FALSE)
    ELSE IF ~is_whitespace(dom[h.node].data) THEN Returns(h, FALSE)
    ELSE LET st == style(h)
         IN IF st.panic THEN OpPanic(h, st.msg)
            ELSE Returns(h, TRUE)

is_ignorable_whitespace(h) ==
    IF ~IsSome(TextCast(h.node)) THEN Returns(h, FALSE)
    ELSE IF ~is_whitespace(dom[h.node].data) THEN Returns(h, FALSE)
    ELSE LET st == style(h)
         IN IF st.panic THEN OpPanic(h, st.msg)
            ELSE Returns(h, st.val.white_space = "normal")

\* A get_input_value that gives the empty string for a node that is not an
\* input element.
get_input_value_OrEmpty(h) ==
    IF IsSome(HTMLInputElementCast(h.node)) THEN Returns(h, dom[h.node].data)
    ELSE Returns(h, <<>>)

get_input_value(h) ==
    IF IsSome(HTMLInputElementCast(h.node)) THEN Returns(h, dom[h.node].data)
    ELSE OpPanic(h, NotAnInput)

get_input_size(h) ==
    IF IsSome(HTMLInputElementCast(h.node)) THEN Returns(h, Unwrap(dom[h.node].size))
    ELSE OpPanic(h, NotAnInput)

\* The attributes of style::legacy::UnsignedIntegerAttribute.
UnsignedIntegerAttributes == {"size", "colspan"}

get_unsigned_integer_attribute(h, attribute) ==
    IF IsSome(ElementCast(h.node))
    THEN Returns(h, IF attribute = "size" THEN dom[h.node].size ELSE None)
    ELSE OpPanic(h, NotAnElementBang)

\* A text_content that knows no textarea.
text_content_NoTextArea(h) ==
    IF h.pseudo # Normal THEN text_content_pseudo(h)
    ELSE IF IsSome(TextCast(h.node)) THEN Returns(h, <<dom[h.node].data>>)
    ELSE IF IsSome(HTMLInputElementCast(h.node)) THEN Returns(h, <<dom[h.node].data>>)
    ELSE OpPanic(h, NotText)

\* text_content of a handle, Normal or not.
text_content(h) ==
    IF h.pseudo # Normal THEN text_content_pseudo(h)
    ELSE IF IsSome(TextCast(h.node)) THEN Returns(h, <<dom[h.node].data>>)
    ELSE IF IsSome(HTMLInputElementCast(h.node)) THEN Returns(h, <<dom[h.node].data>>)
    ELSE IF IsSome(HTMLTextAreaElementCast(h.node)) THEN Returns(h, <<dom[h.node].data>>)
    ELSE OpPanic(h, NotText)

image_url(h) ==
    IF IsSome(HTMLImageElementCast(h.node)) THEN Returns(h, dom[h.node].url)
    ELSE OpPanic(h, NotAnImage)

renderer(h) ==
    IF IsSome(HTMLCanvasElementCast(h.node)) THEN Returns(h, Some("renderer"))
    ELSE Returns(h, None)

canvas_width(h) ==
    IF IsSome(HTMLCanvasElementCast(h.node))
    THEN Returns(h, Unwrap(dom[h.node].canvas).width)
    ELSE OpPanic(h, UnwrapNone)

canvas_height(h) ==
    IF IsSome(HTMLCanvasElementCast(h.node))
    THEN Returns(h, Unwrap(dom[h.node].canvas).height)
    ELSE OpPanic(h, UnwrapNone)

iframe_pipeline_and_subpage_ids(h) ==
    IF ~IsSome(HTMLIFrameElementCast(h.node)) THEN OpPanic(h, NotAnIframe)
    ELSE IF ~IsSome(dom[h.node].ids) THEN OpPanic(h, UnwrapNone)
    ELSE Returns(h, Unwrap(dom[h.node].ids))

\* LayoutNode::opaque: the identity of the node.
opaque(n) == n

\* The address of the DOM object of node n, the one word a LayoutNode holds:
\* the objects lie apart in the heap, 64 bytes each.
Address(n) == 4096 + 64 * n

\* The LayoutNode whose word is ptr: the node at that address, and 0, a
\* LayoutNode of no node of the tree, for any other word.
LayoutNodeAt(ptr) ==
    IF \E n \in Nodes : Address(n) = ptr THEN CHOOSE n \in Nodes : Address(n) = ptr
    ELSE 0

\* impl PartialEq for LayoutNode: the wrapped nodes are the same.
LayoutNode_eq(a, b) == Address(a) = Address(b)

\* A layout_node_to_unsafe_layout_node that keeps the page of the address.
layout_node_to_unsafe_layout_node_Page(n) == <<(Address(n) \div 4096) * 4096, 0>>

\* LayoutNode::debug_id: the address of the node as a number.
LayoutNode_debug_id(n) == Address(opaque(n))

\* An opaque() of a handle that tells the pseudo positions apart.
ThreadSafeLayoutNode_opaque_Tagged(h) ==
    opaque(h.node) + (IF is_before(h.pseudo) THEN MaxNodes
                      ELSE IF is_after(h.pseudo) THEN MaxNodes + MaxNodes ELSE 0)

\* ThreadSafeLayoutNode::opaque and debug_id: those of the wrapped LayoutNode.
ThreadSafeLayoutNode_opaque(h) == opaque(h.node)

debug_id(h) == LayoutNode_debug_id(h.node)

\* UnsafeLayoutNode of a LayoutNode: the word of the node and a zero.
layout_node_to_unsafe_layout_node(n) == <<Address(n), 0>>

\* The LayoutNode of an UnsafeLayoutNode: the first word, read as a LayoutNode.
layout_node_from_unsafe_layout_node(node) == LayoutNodeAt(node[1])

\* A layout_parent_node that gives the reflow root its parent.
layout_parent_node_NoRootCheck(n, reflow_root) ==
    IF ~IsSome(reflow_root) THEN Panic(NoReflowRoot)
    ELSE Ok(parent_node_ref(n))

\* A layout_parent_node that has no parent for the children of the reflow
\* root and gives the reflow root its parent.
layout_parent_node_ChildOfRoot(n, reflow_root) ==
    IF ~IsSome(reflow_root) THEN Panic(NoReflowRoot)
    ELSE IF parent_node_ref(n) = Some(Unwrap(reflow_root)) THEN Ok(None)
    ELSE Ok(parent_node_ref(n))

layout_parent_node(n, reflow_root) ==
    IF ~IsSome(reflow_root) THEN Panic(NoReflowRoot)
    ELSE IF opaque(n) = Unwrap(reflow_root) THEN Ok(None)
    ELSE Ok(parent_node_ref(n))

\* ------------------------------- ThreadSafeLayoutNodeChildrenIterator
\* A children() that starts from the handle's own sibling.
children_FromSibling(h) ==
    Ok([current_node |-> next_sibling(h), parent_node |-> Some(h)])

children(h) ==
    LET fc == first_child(h)
    IN IF fc.panic THEN Panic(fc.msg)
       ELSE Ok([current_node |-> fc.val, parent_node |-> Some(h)])

\* next(): the value returned and the iterator as the call leaves it.
NextResult(v, it) == [panic |-> FALSE, val |-> v, msg |-> "", it |-> it]
NextPanic(it, m) == [panic |-> TRUE, val |-> None, msg |-> m, it |-> it]

\* A next() that looks for the ::after position again after it has returned
\* it.
ChildrenIterator_next_AfterAgain(it) ==
    LET node == it.current_node
    IN IF IsSome(node) /\ ~is_after(Unwrap(node).pseudo)
       THEN NextResult(node, [it EXCEPT !.current_node = next_sibling(Unwrap(node))])
       ELSE LET parent_node == Unwrap(it.parent_node)
                ha == has_after_pseudo(parent_node)
            IN IF ha.panic THEN NextPanic(it, ha.msg)
               ELSE IF ha.val /\ parent_node.pseudo = Normal
                    THEN LET d == get_after_display(parent_node)
                         IN IF d.panic THEN NextPanic(it, d.msg)
                            ELSE NextResult(Some(with_pseudo(parent_node, After(d.val))),
                                            [it EXCEPT !.current_node = None])
                    ELSE NextResult(None, it)

ChildrenIterator_next(it) ==
    LET node == it.current_node
    IN IF IsSome(node)
       THEN IF is_after(Unwrap(node).pseudo) THEN NextResult(None, it)
            ELSE IF IsSome(it.parent_node)
                 THEN NextResult(node,
                        [it EXCEPT !.current_node =
                            IF Unwrap(it.parent_node).pseudo = Normal
                            THEN next_sibling(Unwrap(node))
                            ELSE None])
                 ELSE NextResult(node, it)
       ELSE IF IsSome(it.parent_node)
            THEN LET parent_node == Unwrap(it.parent_node)
                     ha == has_after_pseudo(parent_node)
                 IN IF ha.panic THEN NextPanic(it, ha.msg)
                    ELSE IF ha.val
                         THEN IF parent_node.pseudo = Normal
                              THEN LET d == get_after_display(parent_node)
                                   IN IF d.panic THEN NextPanic(it, d.msg)
                                      ELSE LET a == Some(with_pseudo(parent_node, After(d.val)))
                                           IN NextResult(a, [it EXCEPT !.current_node = a])
                              ELSE NextResult(None, [it EXCEPT !.current_node = None])
                         ELSE NextResult(node, it)
            ELSE NextResult(node, it)

\* ----------------------------------------- the client of the restricted view
InitDom ==
    /\ parent \in Trees(MaxNodes)
    /\ layout_data \in LayoutConfigs(1..MaxNodes)
    /\ borrow = [n \in 1..MaxNodes |-> 0]
    /\ aborted = FALSE

\* The parts of the state an operation of another component leaves alone.
IdleIter ==
    /\ start = ThreadSafeLayoutNode_new(1)
    /\ iter = None
    /\ iter_of = None
    /\ yielded = <<>>
    /\ ended = FALSE

IdlePre ==
    /\ pre_root = 1
    /\ pre_stack = <<>>
    /\ pre_out = <<>>

IdlePost ==
    /\ root = [w \in Workers |-> None]
    /\ stack = [w \in Workers |-> <<>>]
    /\ ret = [w \in Workers |-> None]
    /\ result = [w \in Workers |-> None]
    /\ log = [w \in Workers |-> <<>>]
    /\ touched = [w \in Workers |-> {}]

IdleBorrow ==
    /\ hnd = [w \in Workers |-> ThreadSafeLayoutNode_new(1)]
    /\ guards = [w \in Workers |-> [n \in 1..MaxNodes |-> [shared |-> 0, excl |-> 0]]]
    /\ panic_in = None

IdleView ==
    /\ dom = [n \in 1..MaxNodes |-> DefaultNode]
    /\ call = None

InitIter ==
    /\ InitDom
    /\ IdlePre
    /\ IdleView
    /\ IdlePost
    /\ IdleBorrow
    /\ start \in {ThreadSafeLayoutNode_new(n) : n \in 1..MaxNodes}
    /\ iter = None
    /\ iter_of = None
    /\ yielded = <<>>
    /\ ended = FALSE

\* The handles the client holds: the one it was given, the one it is iterating
\* and the ones the iterator gave it.
Held == {start} \cup {iter_of[i] : i \in DOMAIN iter_of}
                \cup {yielded[i] : i \in DOMAIN yielded}

\* The client calls children() on a handle it holds.
Children(h) ==
    /\ ~aborted
    /\ h \in Held
    /\ LET r == children(h)
       IN IF r.panic
          THEN /\ aborted' = TRUE
               /\ UNCHANGED <<iter, iter_of, yielded, ended>>
          ELSE /\ iter' = Some(r.val)
               /\ iter_of' = Some(h)
               /\ yielded' = <<>>
               /\ ended' = FALSE
               /\ UNCHANGED aborted
    /\ UNCHANGED <<parent, layout_data, borrow, start>>
    /\ UNCHANGED notIter

\* The client calls next() on its iterator.
IterNext ==
    /\ ~aborted
    /\ IsSome(iter)
    /\ LET r == ChildrenIterator_next(Unwrap(iter))
       IN IF r.panic
          THEN /\ aborted' = TRUE
               /\ UNCHANGED <<iter, yielded, ended>>
          ELSE /\ iter' = Some(r.it)
               /\ IF IsSome(r.val)
                  THEN /\ yielded' = Append(yielded, Unwrap(r.val))
                       /\ UNCHANGED ended
                  ELSE /\ ended' = TRUE
                       /\ UNCHANGED yielded
               /\ UNCHANGED aborted
    /\ UNCHANGED <<parent, layout_data, borrow, start, iter_of>>
    /\ UNCHANGED notIter

NextIter ==
    \/ \E h \in Held : Children(h)
    \/ IterNext

SpecIter == InitIter /\ [][NextIter]_vars

\* ------------------------------------------------- LayoutTreeIterator
\* LayoutNodeReverseChildrenIterator, from its current node to its end.
RECURSIVE ReverseChildrenFrom(_)
ReverseChildrenFrom(current) ==
    IF IsSome(current)
    THEN <<Unwrap(current)>> \o ReverseChildrenFrom(prev_sibling_ref(Unwrap(current)))
    ELSE <<>>

\* A rev_children that goes from the first child to the last.
RECURSIVE ForwardChildrenFrom(_)
ForwardChildrenFrom(current) ==
    IF IsSome(current)
    THEN <<Unwrap(current)>> \o ForwardChildrenFrom(next_sibling_ref(Unwrap(current)))
    ELSE <<>>

rev_children_Forward(n) == ForwardChildrenFrom(first_child_ref(n))

rev_children(n) == ReverseChildrenFrom(last_child_ref(n))

\* A LayoutTreeIterator::new that starts below the root.
LayoutTreeIterator_new_SkipRoot(node) == rev_children(node)

LayoutTreeIterator_new(node) == <<node>>

\* next(): pop the last element of the stack, push its children last to first.
LayoutTreeIterator_next(stk) ==
    IF stk = <<>> THEN [val |-> None, stack |-> stk]
    ELSE LET last == stk[Len(stk)]
         IN [val |-> Some(last),
             stack |-> SubSeq(stk, 1, Len(stk) - 1) \o rev_children(last)]

InitPre ==
    /\ InitDom
    /\ IdleIter
    /\ IdleView
    /\ IdlePost
    /\ IdleBorrow
    /\ pre_root \in 1..MaxNodes
    /\ pre_stack = LayoutTreeIterator_new(pre_root)
    /\ pre_out = <<>>

PreorderNext ==
    /\ pre_stack # <<>>
    /\ LET r == LayoutTreeIterator_next(pre_stack)
       IN /\ pre_stack' = r.stack
          /\ pre_out' = Append(pre_out, Unwrap(r.val))
    /\ UNCHANGED <<parent, layout_data, borrow, aborted, pre_root>>
    /\ UNCHANGED notPre

\* The client calls traverse_preorder() on the LayoutNode of n and drops the
\* iterator it had.
TraversePreorder(n) ==
    /\ pre_root' = n
    /\ pre_stack' = LayoutTreeIterator_new(n)
    /\ pre_out' = <<>>
    /\ UNCHANGED <<parent, layout_data, borrow, aborted>>
    /\ UNCHANGED notPre

NextPre ==
    \/ PreorderNext
    \/ \E n \in 1..MaxNodes : TraversePreorder(n)

SpecPre == InitPre /\ [][NextPre]_vars

ProperAncestors(n) == AncestorsOrSelf(parent, n) \ {n}

Descendants(n) == {m \in Nodes : n \in ProperAncestors(m)}

\* C6: traverse_preorder() yields its start node first, and every node it
\* yields comes after each of its ancestors below the start node, so that a
\* node is yielded before all of its descendants.
C6_PreorderParentFirst ==
    /\ pre_out # <<>> => pre_out[1] = pre_root
    /\ \A j \in DOMAIN pre_out :
          \A a \in ProperAncestors(pre_out[j]) :
              (a = pre_root \/ pre_root \in ProperAncestors(a))
                 => \E i \in 1..(j - 1) : pre_out[i] = a
    /\ pre_stack = <<>> =>
          \A d \in Descendants(pre_root) : \E j \in DOMAIN pre_out : pre_out[j] = d

\* A finished traversal from a node that has a parent, a child and a
\* grandchild or two children.
C6_Witness ==
    /\ pre_stack = <<>>
    /\ Len(pre_out) >= 3
    /\ parent[pre_root] # 0

\* ------------------------------ ThreadSafeLayoutNode::traverse_postorder_mut
\* A frame is one call of traverse_postorder_mut on self. Its pc is
\*   "should_prune": traversal.should_prune(self) is running;
\*   "first_child":  should_prune returned false, self.first_child() is next;
\*   "wait":         kid.traverse_postorder_mut(traversal) is running or has
\*                   just returned, kid being the frame's kid;
\*   "process":      the loop over the kids has ended, traversal.process(self)
\*                   is running.
\* A call that goes to the children without asking should_prune.
Frame_NoPrune(h) == [self |-> h, pc |-> "first_child", kid |-> None]

Frame(h) == [self |-> h, pc |-> "should_prune", kid |-> None]

Event(op, h, r) == [op |-> op, h |-> h, r |-> r]

Top(w) == stack[w][Len(stack[w])]

Running(w) == ~aborted /\ stack[w] # <<>>

\* A return that, when the outermost call fails, unwinds every worker.
Finish_StopAll(w, evs, b) ==
    LET rest == SubSeq(stack[w], 1, Len(stack[w]) - 1)
    IN /\ stack' = IF rest = <<>> /\ ~b THEN [v \in Workers |-> <<>>]
                   ELSE [stack EXCEPT ![w] = rest]
       /\ log' = [log EXCEPT ![w] = log[w] \o evs \o <<Event("return", Top(w).self, b)>>]
       /\ IF rest = <<>>
          THEN /\ result' = [result EXCEPT ![w] = Some(b)]
               /\ ret' = [ret EXCEPT ![w] = None]
          ELSE /\ ret' = [ret EXCEPT ![w] = Some(b)]
               /\ UNCHANGED result

\* The call of the top frame returns b, after the visitor calls evs.
Finish(w, evs, b) ==
    LET rest == SubSeq(stack[w], 1, Len(stack[w]) - 1)
    IN /\ stack' = [stack EXCEPT ![w] = rest]
       /\ log' = [log EXCEPT ![w] = log[w] \o evs \o <<Event("return", Top(w).self, b)>>]
       /\ IF rest = <<>>
          THEN /\ result' = [result EXCEPT ![w] = Some(b)]
               /\ ret' = [ret EXCEPT ![w] = None]
          ELSE /\ ret' = [ret EXCEPT ![w] = Some(b)]
               /\ UNCHANGED result

\* `while let Some(mut kid) = opt_kid`: call the kid, or leave the loop.
EnterKid(w, opt_kid) ==
    LET n == Len(stack[w])
    IN IF IsSome(opt_kid)
       THEN stack' = [stack EXCEPT ![w] =
                        Append([stack[w] EXCEPT ![n].pc = "wait", ![n].kid = opt_kid],
                               Frame(Unwrap(opt_kid)))]
       ELSE stack' = [stack EXCEPT ![w][n].pc = "process", ![w][n].kid = None]

\* A traversal that descends whatever should_prune returned.
ShouldPrune_Descend(w, r) ==
    /\ Running(w)
    /\ Top(w).pc = "should_prune"
    /\ stack' = [stack EXCEPT ![w][Len(stack[w])].pc = "first_child"]
    /\ log' = [log EXCEPT ![w] = Append(log[w], Event("should_prune", Top(w).self, r))]
    /\ UNCHANGED <<ret, result>>
    /\ UNCHANGED <<domVars, aborted, root, touched>>
    /\ UNCHANGED notPost

\* traversal.should_prune(self) returns r.
ShouldPrune(w, r) ==
    /\ Running(w)
    /\ Top(w).pc = "should_prune"
    /\ IF r
       THEN Finish(w, <<Event("should_prune", Top(w).self, r)>>, TRUE)
       ELSE /\ stack' = [stack EXCEPT ![w][Len(stack[w])].pc = "first_child"]
            /\ log' = [log EXCEPT ![w] = Append(log[w], Event("should_prune", Top(w).self, r))]
            /\ UNCHANGED <<ret, result>>
    /\ UNCHANGED <<domVars, aborted, root, touched>>
    /\ UNCHANGED notPost

\* let mut opt_kid = self.first_child();
FirstChild(w) ==
    /\ Running(w)
    /\ Top(w).pc = "first_child"
    /\ LET fc == first_child(Top(w).self)
       IN IF fc.panic
          THEN /\ aborted' = TRUE
               /\ UNCHANGED stack
          ELSE /\ EnterKid(w, fc.val)
               /\ UNCHANGED aborted
    /\ touched' = [touched EXCEPT ![w] =
                     IF Top(w).self.pseudo = Normal THEN touched[w] \cup {Top(w).self.node}
                     ELSE touched[w]]
    /\ UNCHANGED <<domVars, root, ret, result, log>>
    /\ UNCHANGED notPost

\* A loop that goes on to the next kid whatever the kid's traversal returned.
AfterKid_IgnoreFailure(w) ==
    /\ Running(w)
    /\ Top(w).pc = "wait"
    /\ IsSome(ret[w])
    /\ EnterKid(w, next_sibling(Unwrap(Top(w).kid)))
    /\ ret' = [ret EXCEPT ![w] = None]
    /\ UNCHANGED <<result, log>>
    /\ UNCHANGED <<domVars, aborted, root, touched>>
    /\ UNCHANGED notPost

\* if !kid.traverse_postorder_mut(traversal) { return false }
\* opt_kid = kid.next_sibling()
AfterKid(w) ==
    /\ Running(w)
    /\ Top(w).pc = "wait"
    /\ IsSome(ret[w])
    /\ IF ~Unwrap(ret[w])
       THEN Finish(w, <<>>, FALSE)
       ELSE /\ EnterKid(w, next_sibling(Unwrap(Top(w).kid)))
            /\ ret' = [ret EXCEPT ![w] = None]
            /\ UNCHANGED <<result, log>>
    /\ UNCHANGED <<domVars, aborted, root, touched>>
    /\ UNCHANGED notPost

\* A traverse_postorder_mut that returns true whatever process returned.
Process_AlwaysTrue(w, r) ==
    /\ Running(w)
    /\ Top(w).pc = "process"
    /\ Finish(w, <<Event("process", Top(w).self, r)>>, TRUE)
    /\ UNCHANGED <<domVars, aborted, root, touched>>
    /\ UNCHANGED notPost

\* traversal.process(self) returns r, and traverse_postorder_mut returns it.
Process(w, r) ==
    /\ Running(w)
    /\ Top(w).pc = "process"
    /\ Finish(w, <<Event("process", Top(w).self, r)>>, r)
    /\ UNCHANGED <<domVars, aborted, root, touched>>
    /\ UNCHANGED notPost

\* Layout data is attached to every node before flow construction traverses.
InitDomAttached ==
    /\ InitDom
    /\ \A n \in 1..MaxNodes : IsSome(layout_data[n])

InitPost ==
    /\ InitDomAttached
    /\ IdleIter
    /\ IdleView
    /\ IdlePre
    /\ IdleBorrow
    /\ \E n \in 1..MaxNodes :
          /\ root = [w \in Workers |-> IF w = 1 THEN Some(ThreadSafeLayoutNode_new(n)) ELSE None]
          /\ stack = [w \in Workers |-> IF w = 1 THEN <<Frame(ThreadSafeLayoutNode_new(n))>> ELSE <<>>]
    /\ ret = [w \in Workers |-> None]
    /\ result = [w \in Workers |-> None]
    /\ log = [w \in Workers |-> <<>>]
    /\ touched = [w \in Workers |-> {}]

NextPost ==
    \/ \E r \in BOOLEAN : ShouldPrune(1, r)
    \/ FirstChild(1)
    \/ AfterKid(1)
    \/ \E r \in BOOLEAN : Process(1, r)

SpecPost == InitPost /\ [][NextPost]_vars

\* The worker goes on running: a call that can take a step takes it.
SpecPostLive == SpecPost /\ WF_vars(NextPost)

\* ------------------------------------------ client code and its borrows
\* The handles that exist on the nodes: a Normal handle on each node, and a
\* pseudo handle for each resolved pseudo-element style.
HandlesOn(ld, n) ==
    {[node |-> n, pseudo |-> Normal]}
    \cup (IF IsSome(ld[n]) /\ IsSome(Unwrap(ld[n]).before_style)
          THEN {[node |-> n, pseudo |-> Before(Unwrap(Unwrap(ld[n]).before_style).display)]}
          ELSE {})
    \cup (IF IsSome(ld[n]) /\ IsSome(Unwrap(ld[n]).after_style)
          THEN {[node |-> n, pseudo |-> After(Unwrap(Unwrap(ld[n]).after_style).display)]}
          ELSE {})

GuardCount(w) ==
    LET RECURSIVE Sum(_)
        Sum(S) == IF S = {} THEN 0
                  ELSE LET n == SetMin(S)
                       IN guards[w][n].shared + guards[w][n].excl + Sum(S \ {n})
    IN Sum(Nodes)

GuardsHeld == GuardCount(1) + GuardCount(2)

\* What is known of a panic: the worker, the kind of call it made and the
\* message.
PanicInfo(w, c, m) == [w |-> w, call |-> c, msg |-> m]

\* The tree plays no part in these calls and the nodes are alike: the workers
\* work on the same node or on two nodes, and the other nodes keep the default
\* layout data.
InitBorrow ==
    /\ parent = [n \in 1..MaxNodes |-> n - 1]
    /\ layout_data \in LayoutConfigs(1..MaxNodes)
    /\ borrow = [n \in 1..MaxNodes |-> 0]
    /\ aborted = FALSE
    /\ IdleIter
    /\ IdleView
    /\ IdlePre
    /\ IdlePost
    /\ hnd \in [Workers -> UNION {HandlesOn(layout_data, n) : n \in 1..MaxNodes}]
    /\ hnd[1].node = 1
    /\ hnd[2].node \in {1, 2}
    /\ \A n \in 1..MaxNodes :
          layout_data[n] # DefaultLayoutData => n \in {hnd[1].node, hnd[2].node}
    /\ guards = [w \in Workers |-> [n \in 1..MaxNodes |-> [shared |-> 0, excl |-> 0]]]
    /\ panic_in = None

\* The client code of w calls borrow_layout_data() and keeps the Ref.
BorrowGuard(w) ==
    /\ ~aborted
    /\ GuardsHeld < MaxGuards
    /\ LET h == hnd[w]
           r == borrow_layout_data(h)
       IN IF r.panic
          THEN /\ aborted' = TRUE
               /\ panic_in' = Some(PanicInfo(w, "borrow_layout_data", r.msg))
               /\ UNCHANGED <<borrow, guards>>
          ELSE /\ borrow' = [borrow EXCEPT ![h.node] = @ + 1]
               /\ guards' = [guards EXCEPT ![w][h.node].shared = @ + 1]
               /\ UNCHANGED <<aborted, panic_in>>
    /\ UNCHANGED <<parent, layout_data, hnd>>
    /\ UNCHANGED notBorrow

\* The client code of w calls mutate_layout_data() and keeps the RefMut.
MutateGuard(w) ==
    /\ ~aborted
    /\ GuardsHeld < MaxGuards
    /\ LET h == hnd[w]
           r == mutate_layout_data(h)
       IN IF r.panic
          THEN /\ aborted' = TRUE
               /\ panic_in' = Some(PanicInfo(w, "mutate_layout_data", r.msg))
               /\ UNCHANGED <<borrow, guards>>
          ELSE /\ borrow' = [borrow EXCEPT ![h.node] = -1]
               /\ guards' = [guards EXCEPT ![w][h.node].excl = @ + 1]
               /\ UNCHANGED <<aborted, panic_in>>
    /\ UNCHANGED <<parent, layout_data, hnd>>
    /\ UNCHANGED notBorrow

\* A Ref or RefMut of w goes out of scope.
DropGuard(w, n, kind) ==
    /\ ~aborted
    /\ IF kind = "shared"
       THEN /\ guards[w][n].shared > 0
            /\ guards' = [guards EXCEPT ![w][n].shared = @ - 1]
            /\ borrow' = [borrow EXCEPT ![n] = @ - 1]
       ELSE /\ guards[w][n].excl > 0
            /\ guards' = [guards EXCEPT ![w][n].excl = @ - 1]
            /\ borrow' = [borrow EXCEPT ![n] = 0]
    /\ UNCHANGED <<parent, layout_data, aborted, hnd, panic_in>>
    /\ UNCHANGED notBorrow

\* The client code of w calls an accessor on its handle.
CallOp(w, op, arg) ==
    /\ ~aborted
    /\ OpApplies(op, hnd[w])
    /\ LET r == RunOp(op, hnd[w], arg)
       IN IF r.panic
          THEN /\ aborted' = TRUE
               /\ panic_in' = Some(PanicInfo(w, "accessor", r.msg))
               /\ UNCHANGED layout_data
          ELSE /\ layout_data' = [layout_data EXCEPT ![hnd[w].node] = r.ld]
               /\ UNCHANGED <<aborted, panic_in>>
    /\ UNCHANGED <<parent, borrow, hnd, guards>>
    /\ UNCHANGED notBorrow

NextBorrow ==
    \/ \E w \in Workers : BorrowGuard(w)
    \/ \E w \in Workers : MutateGuard(w)
    \/ \E w \in Workers, n \in Nodes, kind \in {"shared", "excl"} : DropGuard(w, n, kind)
    \/ \E w \in Workers, op \in SideTableOps : \E arg \in OpArgs(op) : CallOp(w, op, arg)

SpecBorrow == InitBorrow /\ [][NextBorrow]_vars

\* ------------------------------------------ the client of the accessors
\* The accessors of the node's content by name.
ContentOps ==
    {"type_id", "is_content", "as_element", "is_ignorable_whitespace",
     "get_input_value", "get_input_size", "get_unsigned_integer_attribute",
     "text_content", "image_url", "renderer", "canvas_width", "canvas_height",
     "iframe_pipeline_and_subpage_ids"}

ViewOps == SideTableOps \cup ContentOps

ViewArgs(op) ==
    IF op = "get_unsigned_integer_attribute" THEN UnsignedIntegerAttributes
    ELSE OpArgs(op)

RunView(op, h, arg) ==
    CASE op = "type_id" -> type_id(h)
      [] op = "is_content" -> is_content(h)
      [] op = "as_element" -> as_element(h)
      [] op = "is_ignorable_whitespace" -> is_ignorable_whitespace(h)
      [] op = "get_input_value" -> get_input_value(h)
      [] op = "get_input_size" -> get_input_size(h)
      [] op = "get_unsigned_integer_attribute" -> get_unsigned_integer_attribute(h, arg)
      [] op = "text_content" -> text_content(h)
      [] op = "image_url" -> image_url(h)
      [] op = "renderer" -> renderer(h)
      [] op = "canvas_width" -> canvas_width(h)
      [] op = "canvas_height" -> canvas_height(h)
      [] op = "iframe_pipeline_and_subpage_ids" -> iframe_pipeline_and_subpage_ids(h)
      [] OTHER -> RunOp(op, h, arg)

\* The styles of the nodes the accessors are called on.
WhiteSpaces == {"normal", "pre", "nowrap"}
Contents ==
    {ContentNormal, ContentNone, Content(<<>>), Content(<<"x">>), Content(<<"y", "z">>)}
TextStyles == {ComputedValues("inline", ContentNormal, ws) : ws \in WhiteSpaces}
PseudoStyles == {ComputedValues("inline", c, "normal") : c \in Contents}

\* The layout data of a node of any type: none, attached and not styled, or
\* styled without pseudo-elements.
PlainLayoutData ==
    {None, Some(LayoutDataWrapper(None, None, None))}
    \cup {Some(LayoutDataWrapper(Some(st), None, None)) : st \in TextStyles}

\* The slots of two pseudo-elements of which one is absent or has the one-item
\* content list, the other any content.
PseudoSlots ==
    LET Plain == {None, Some(ComputedValues("inline", Content(<<"x">>), "normal"))}
    IN {ba \in StyleOpts(PseudoStyles) \X StyleOpts(PseudoStyles) :
           ba[1] \in Plain \/ ba[2] \in Plain}

\* The layout data of an element with pseudo-elements.
PseudoLayoutData ==
    {Some(LayoutDataWrapper(st, ba[1], ba[2])) :
        st \in StyleOpts(NormalStyles), ba \in PseudoSlots}

\* An input element with a value, and its layout data: styled, with a ::before
\* of the one-item content list and any ::after.
InputHost == Node("HTMLInputElement", <<"h", "i">>, Some("20"), None, None, None)
InputLayoutData ==
    {ld \in PseudoLayoutData :
        /\ IsSome(Unwrap(ld).style)
        /\ Unwrap(ld).before_style = Some(ComputedValues("inline", Content(<<"x">>), "normal"))}

\* The client has the handles of node 1, a node of any type with plain layout
\* data, a plain element with pseudo-elements or an input element with them.
InitView ==
    /\ parent = [n \in 1..MaxNodes |-> n - 1]
    /\ borrow = [n \in 1..MaxNodes |-> 0]
    /\ aborted = FALSE
    /\ IdleIter
    /\ IdlePre
    /\ IdlePost
    /\ IdleBorrow
    /\ \E d \in NodeOpts, ld \in PlainLayoutData \cup PseudoLayoutData :
          /\ \/ ld \in PlainLayoutData
             \/ d = DefaultNode /\ ld \in PseudoLayoutData
             \/ d = InputHost /\ ld \in InputLayoutData
          /\ dom = [n \in 1..MaxNodes |-> IF n = 1 THEN d ELSE DefaultNode]
          /\ layout_data = [n \in 1..MaxNodes |-> IF n = 1 THEN ld ELSE DefaultLayoutData]
    /\ call = None

\* What the client sees of a call: the handle, the accessor, its argument, the
\* layout data of the node before the call and the outcome.
CallRecord(op, h, arg, r) ==
    [op |-> op, h |-> h, arg |-> arg, pre |-> layout_data[h.node],
     panic |-> r.panic, val |-> r.val, msg |-> r.msg]

\* The client calls an accessor on a handle of node 1.
ViewCall(op, h, arg) ==
    /\ ~aborted
    /\ h \in HandlesOn(layout_data, 1)
    /\ LET r == RunView(op, h, arg)
       IN /\ call' = Some(CallRecord(op, h, arg, r))
          /\ layout_data' = [layout_data EXCEPT ![h.node] = r.ld]
          /\ aborted' = r.panic
    /\ UNCHANGED <<parent, borrow, dom>>
    /\ UNCHANGED notView

NextView ==
    \E op \in ViewOps : \E h \in HandlesOn(layout_data, 1), arg \in ViewArgs(op) :
        ViewCall(op, h, arg)

SpecView == InitView /\ [][NextView]_vars

\* ------------------------------- the client that iterates under a borrow
\* The display getters by name.
DisplayOps == {"get_normal_display", "get_before_display", "get_after_display"}

\* The client holds a Ref or a RefMut of the layout data of the node of the
\* handle it was given.
InitHeld ==
    /\ parent \in Trees(MaxNodes)
    /\ layout_data \in LayoutConfigs(1..MaxNodes)
    /\ aborted = FALSE
    /\ IdlePre
    /\ IdleView
    /\ IdlePost
    /\ start \in {ThreadSafeLayoutNode_new(n) : n \in 1..MaxNodes}
    /\ iter = None
    /\ iter_of = None
    /\ yielded = <<>>
    /\ ended = FALSE
    /\ hnd = [w \in Workers |-> start]
    /\ panic_in = None
    /\ \E kind \in {"shared", "excl"} :
          /\ borrow = [n \in 1..MaxNodes |->
                         IF n # start.node THEN 0 ELSE IF kind = "shared" THEN 1 ELSE -1]
          /\ guards = [w \in Workers |-> [n \in 1..MaxNodes |->
                         [shared |-> IF w = 1 /\ n = start.node /\ kind = "shared"
                                     THEN 1 ELSE 0,
                          excl |-> IF w = 1 /\ n = start.node /\ kind = "excl"
                                   THEN 1 ELSE 0]]]

\* The client calls a display getter on the handle it was given.
DisplayCall(op) ==
    /\ ~aborted
    /\ LET r == RunOp(op, start, {})
       IN /\ call' = Some(CallRecord(op, start, {}, r))
          /\ aborted' = r.panic
    /\ UNCHANGED <<domVars, dom>>
    /\ UNCHANGED notView

\* The client works on the handle it was given only.
NextHeld ==
    \/ Children(start)
    \/ IterNext
    \/ \E op \in DisplayOps : DisplayCall(op)

SpecHeld == InitHeld /\ [][NextHeld]_vars

\* ------------------------------------------------------- LayoutElement
\* The types of elements, the namespaces and names of attributes and their
\* values.
LinkTypeIds == {"HTMLAnchorElement", "HTMLAreaElement", "HTMLLinkElement"}
ElemTypeIds == LinkTypeIds \cup {"HTMLDivElement"}
Namespaces == {"", "xlink"}
AttrNames == {"href", "Href"}
AttrValues == {"x", "y"}

\* An attribute of an element, and an element: its type, whether it is an HTML
\* element in an HTML document, and its attributes in order.
Attr(ns, name, value) == [namespace |-> ns, local_name |-> name, value |-> value]
Element(t, html, attrs) == [type_id |-> t, html_in_html |-> html, attrs |-> attrs]

Attrs == {Attr(ns, name, v) : ns \in Namespaces, name \in AttrNames, v \in AttrValues}

\* Lists of attributes in which no two have the same namespace and name.
AttrLists ==
    LET Upto == UNION {[1..k -> Attrs] : k \in 0..MaxAttrs}
    IN {l \in Upto : \A i, j \in 1..Len(l) :
            (l[i].namespace = l[j].namespace /\ l[i].local_name = l[j].local_name)
                => i = j}

\* Element::get_attr_val_for_layout: the value of the first attribute of the
\* namespace and the name.
get_attr_val_for_layout(n, namespace, name) ==
    LET attrs == dom[n].attrs
        Hits == {i \in 1..Len(attrs) :
                    attrs[i].namespace = namespace /\ attrs[i].local_name = name}
    IN IF Hits = {} THEN None ELSE Some(attrs[SetMin(Hits)].value)

\* Element::get_attr_vals_for_layout: the values of the attributes of the
\* name, in order.
get_attr_vals_for_layout(n, name) ==
    LET Name(a) == a.local_name = name
    IN [i \in 1..Len(SelectSeq(dom[n].attrs, Name)) |->
            SelectSeq(dom[n].attrs, Name)[i].value]

get_attr(n, namespace, name) == get_attr_val_for_layout(n, namespace, name)

get_attrs(n, name) == get_attr_vals_for_layout(n, name)

is_html_element_in_html_document(n) == dom[n].html_in_html

\* An is_link that takes an href of any namespace.
is_link_AnyNamespace(n) ==
    IF dom[n].type_id \in LinkTypeIds
    THEN Ok(Len(get_attr_vals_for_layout(n, "href")) > 0)
    ELSE Ok(FALSE)

is_link(n) ==
    IF dom[n].type_id \in LinkTypeIds
    THEN Ok(IsSome(get_attr_val_for_layout(n, "", "href")))
    ELSE Ok(FALSE)

is_unvisited_link(n) == is_link(n)

is_visited_link(n) == Ok(FALSE)

\* The selectors of attributes: the name as written and in lower case, and
\* the namespace constraint.
to_lower(name) == IF name = "Href" THEN "href" ELSE name
NamespaceAny == [kind |-> "Any", ns |-> ""]
Specific(ns) == [kind |-> "Specific", ns |-> ns]
AttrSelector(name, constraint) ==
    [name |-> name, lower_name |-> to_lower(name), namespace |-> constraint]
AttrSelectors ==
    {AttrSelector(name, c) : name \in AttrNames,
                             c \in {NamespaceAny} \cup {Specific(ns) : ns \in Namespaces}}

\* The tests of a value, each the set of the values it accepts.
Tests == {{}, {"x"}, {"x", "y"}}

\* A match_attr that always looks up the name as written.
match_attr_CaseSensitive(n, attr, test) ==
    IF attr.namespace.kind = "Specific"
    THEN LET v == get_attr(n, attr.namespace.ns, attr.name)
         IN Ok(IF IsSome(v) THEN Unwrap(v) \in test ELSE FALSE)
    ELSE LET vs == get_attrs(n, attr.name)
         IN Ok(\E i \in 1..Len(vs) : vs[i] \in test)

match_attr(n, attr, test) ==
    LET name == IF is_html_element_in_html_document(n) THEN attr.lower_name
                ELSE attr.name
    IN IF attr.namespace.kind = "Specific"
       THEN LET v == get_attr(n, attr.namespace.ns, name)
            IN Ok(IF IsSome(v) THEN Unwrap(v) \in test ELSE FALSE)
       ELSE LET vs == get_attrs(n, name)
            IN Ok(\E i \in 1..Len(vs) : vs[i] \in test)

\* ------------------------------------------- the client of a LayoutElement
ElementOps == {"is_link", "is_unvisited_link", "is_visited_link", "match_attr"}

ElementArgs(op) ==
    IF op = "match_attr" THEN AttrSelectors \X Tests ELSE {{}}

RunElement(op, n, arg) ==
    CASE op = "is_link" -> is_link(n)
      [] op = "is_unvisited_link" -> is_unvisited_link(n)
      [] op = "is_visited_link" -> is_visited_link(n)
      [] op = "match_attr" -> match_attr(n, arg[1], arg[2])

\* Node 1 is an element of any type with any attributes.
InitElement ==
    /\ parent = [n \in 1..MaxNodes |-> n - 1]
    /\ layout_data = [n \in 1..MaxNodes |-> DefaultLayoutData]
    /\ borrow = [n \in 1..MaxNodes |-> 0]
    /\ aborted = FALSE
    /\ IdleIter
    /\ IdlePre
    /\ IdlePost
    /\ IdleBorrow
    /\ \E t \in ElemTypeIds, html \in BOOLEAN, attrs \in AttrLists :
          dom = [n \in 1..MaxNodes |-> IF n = 1 THEN Element(t, html, attrs)
                                       ELSE DefaultNode]
    /\ call = None

\* The selector matcher calls a method of the LayoutElement of node 1.
ElementCall(op, arg) ==
    /\ ~aborted
    /\ LET r == RunElement(op, 1, arg)
       IN /\ call' = Some([op |-> op, h |-> ThreadSafeLayoutNode_new(1), arg |-> arg,
                           pre |-> layout_data[1], panic |-> r.panic, val |-> r.val,
                           msg |-> r.msg])
          /\ aborted' = r.panic
    /\ UNCHANGED <<domVars, dom>>
    /\ UNCHANGED notView

NextElement == \E op \in ElementOps : \E arg \in ElementArgs(op) : ElementCall(op, arg)

SpecElement == InitElement /\ [][NextElement]_vars

\* ------------------------------------------ the client of the full view
\* The opaque identities a layout context can hold as its reflow root: the
\* nodes of the tree, and 0 for a node that is not in it.
OpaqueNodes == 0..MaxNodes

InitTree ==
    /\ parent \in Trees(MaxNodes)
    /\ layout_data = [n \in 1..MaxNodes |-> DefaultLayoutData]
    /\ borrow = [n \in 1..MaxNodes |-> 0]
    /\ aborted = FALSE
    /\ IdleIter
    /\ IdlePre
    /\ IdlePost
    /\ IdleBorrow
    /\ IdleView

\* The client calls layout_parent_node on the LayoutNode of n, with a layout
\* context whose reflow_root is reflow_root.
LayoutParentNode(n, reflow_root) ==
    /\ ~aborted
    /\ LET r == layout_parent_node(n, reflow_root)
       IN /\ call' = Some([op |-> "layout_parent_node", h |-> ThreadSafeLayoutNode_new(n),
                           arg |-> reflow_root, pre |-> layout_data[n],
                           panic |-> r.panic, val |-> r.val, msg |-> r.msg])
          /\ aborted' = r.panic
    /\ UNCHANGED <<domVars, dom>>
    /\ UNCHANGED notView

\* The client puts the LayoutNodes of a and b in a work queue as
\* UnsafeLayoutNodes and takes the first back out.
UnsafeRoundTrip(a, b) ==
    /\ ~aborted
    /\ LET ua == layout_node_to_unsafe_layout_node(a)
           ub == layout_node_to_unsafe_layout_node(b)
       IN call' = Some([op |-> "layout_node_to_unsafe_layout_node",
                        h |-> ThreadSafeLayoutNode_new(a), arg |-> b,
                        pre |-> layout_data[a], panic |-> FALSE,
                        val |-> [unsafe |-> ua, other |-> ub,
                                 back |-> layout_node_from_unsafe_layout_node(ua)],
                        msg |-> ""])
    /\ UNCHANGED <<domVars, dom, aborted>>
    /\ UNCHANGED notView

NextTree ==
    \/ \E n \in Nodes, reflow_root \in {None} \cup {Some(o) : o \in OpaqueNodes} :
          LayoutParentNode(n, reflow_root)
    \/ \E a, b \in Nodes : UnsafeRoundTrip(a, b)

SpecTree == InitTree /\ [][NextTree]_vars

\* ----------------------------------------- the walk to the reflow root
InitWalk == InitTree

\* One call of the walk: layout_parent_node on n, after the calls on the nodes
\* of walk.
WalkCall(n, reflow_root, walk) ==
    LET r == layout_parent_node(n, reflow_root)
    IN [op |-> "layout_parent_node", h |-> ThreadSafeLayoutNode_new(n),
        arg |-> reflow_root, pre |-> layout_data[n], panic |-> r.panic,
        val |-> r.val, msg |-> r.msg, walk |-> Append(walk, n)]

\* The client starts to walk up from n.
StartWalk(n, reflow_root) ==
    /\ ~aborted
    /\ call = None
    /\ call' = Some(WalkCall(n, reflow_root, <<>>))
    /\ aborted' = Unwrap(call').panic
    /\ UNCHANGED <<domVars, dom>>
    /\ UNCHANGED notView

\* The client calls layout_parent_node on the node the last call returned.
WalkStep ==
    /\ ~aborted
    /\ IsSome(call)
    /\ IsSome(Unwrap(call).val)
    /\ call' = Some(WalkCall(Unwrap(Unwrap(call).val), Unwrap(call).arg,
                             Unwrap(call).walk))
    /\ aborted' = Unwrap(call').panic
    /\ UNCHANGED <<domVars, dom>>
    /\ UNCHANGED notView

NextWalk ==
    \/ \E n \in Nodes, reflow_root \in {None} \cup {Some(o) : o \in OpaqueNodes} :
          StartWalk(n, reflow_root)
    \/ WalkStep

\* The client goes on until a call returns none.
SpecWalk == InitWalk /\ [][NextWalk]_vars /\ WF_vars(NextWalk)

\* ------------------------------------------------ two parallel traversals
\* The scheduler hands the subtrees of two siblings to two workers, which run
\* traverse_postorder_mut on them at the same time.
InitPar ==
    /\ InitDomAttached
    /\ IdleIter
    /\ IdleView
    /\ IdlePre
    /\ IdleBorrow
    /\ \E s1, s2 \in 1..MaxNodes :
          /\ parent[s1] # 0
          /\ parent[s1] = parent[s2]
          /\ s1 < s2
          /\ root = [w \in Workers |->
                        Some(ThreadSafeLayoutNode_new(IF w = 1 THEN s1 ELSE s2))]
          /\ stack = [w \in Workers |->
                        <<Frame(ThreadSafeLayoutNode_new(IF w = 1 THEN s1 ELSE s2))>>]
    /\ ret = [w \in Workers |-> None]
    /\ result = [w \in Workers |-> None]
    /\ log = [w \in Workers |-> <<>>]
    /\ touched = [w \in Workers |-> {}]

\* The handles children() and next() give of the children of h.
RECURSIVE Drain(_)
Drain(it) ==
    LET r == ChildrenIterator_next(it)
    IN IF r.panic \/ ~IsSome(r.val) THEN {} ELSE {Unwrap(r.val)} \cup Drain(r.it)

ChildHandles(h) ==
    LET c == children(h)
    IN IF c.panic THEN {} ELSE Drain(c.val)

\* The handles a visitor can get from the handle it is called with, on which
\* it calls the accessors of the layout data.
RECURSIVE Reach(_)
Reach(h) == {h} \cup UNION {Reach(k) : k \in ChildHandles(h)}

NextPar ==
    \/ \E w \in Workers, r \in BOOLEAN : ShouldPrune(w, r)
    \/ \E w \in Workers : FirstChild(w)
    \/ \E w \in Workers : AfterKid(w)
    \/ \E w \in Workers, r \in BOOLEAN : Process(w, r)

SpecPar == InitPar /\ [][NextPar]_vars

\* ------------------------------------------------ properties of children()
RECURSIVE SetToSeq(_)
SetToSeq(S) == IF S = {} THEN <<>> ELSE <<SetMin(S)>> \o SetToSeq(S \ {SetMin(S)})

IsPrefix(s, t) == Len(s) <= Len(t) /\ \A i \in 1..Len(s) : s[i] = t[i]

Attached(n) == IsSome(layout_data[n])

\* The child sequence the specification gives for a Normal-tagged handle on
\* node n whose layout data is attached.
ExpectedChildren(n) ==
    LET ld == Unwrap(layout_data[n])
        kids == SetToSeq(ChildSet(n))
        pre == IF IsSome(ld.before_style)
               THEN <<[node |-> n, pseudo |-> Before(Unwrap(ld.before_style).display)]>>
               ELSE <<>>
        mid == [i \in 1..Len(kids) |-> [node |-> kids[i], pseudo |-> Normal]]
        post == IF IsSome(ld.after_style)
                THEN <<[node |-> n, pseudo |-> After(Unwrap(ld.after_style).display)]>>
                ELSE <<>>
    IN pre \o mid \o post

\* C1: the children of a Normal-tagged handle whose layout data is attached
\* are the ::before handle when the before style is resolved, then the tree
\* children in document order, then the ::after handle when the after style is
\* resolved; the iterator yields nothing else and ends after exactly these.
C1_ChildSequence ==
    (IsSome(iter_of) /\ Unwrap(iter_of).pseudo = Normal /\ Attached(Unwrap(iter_of).node))
        => LET n == Unwrap(iter_of).node
               ld == Unwrap(layout_data[n])
           IN /\ IsPrefix(yielded, ExpectedChildren(n))
              /\ ended =>
                    /\ yielded = ExpectedChildren(n)
                    /\ Len(yielded) = (IF IsSome(ld.before_style) THEN 1 ELSE 0)
                                      + Cardinality(ChildSet(n))
                                      + (IF IsSome(ld.after_style) THEN 1 ELSE 0)

\* An iteration that ended after a ::before handle, two tree children and an
\* ::after handle, and one that ended after the two pseudo handles alone.
C1_Witness ==
    /\ IsSome(iter_of) /\ Unwrap(iter_of).pseudo = Normal
    /\ ended
    /\ Len(yielded) = 4
    /\ is_before(yielded[1].pseudo) /\ is_after(yielded[4].pseudo)

C1_WitnessNoChildren ==
    /\ IsSome(iter_of) /\ Unwrap(iter_of).pseudo = Normal
    /\ ended
    /\ ChildSet(Unwrap(iter_of).node) = {}
    /\ Len(yielded) = 2

\* C10: every handle reachable from the start handle by children() and next()
\* denotes the start node, one of its descendants, or a pseudo position of
\* one of those: never the parent, an ancestor or a sibling of the start node.
C10_OnlyDownward ==
    \A h \in Held : start.node \in AncestorsOrSelf(parent, h.node)

\* The start node has a parent and a next sibling, and the client has walked
\* to a child and to a pseudo position of it and ended an iteration.
C10_Witness ==
    /\ parent[start.node] # 0
    /\ IsSome(next_sibling_ref(start.node))
    /\ \E h \in Held : h.pseudo = Normal /\ parent[h.node] = start.node
    /\ \E h \in Held : h.pseudo # Normal
    /\ ended

\* --------------------------------- properties of traverse_postorder_mut
\* Handle d lies below handle a: d is a pseudo position of a's node or a
\* handle on a descendant of a's node. A pseudo handle has nothing below it.
IsBelow(d, a) ==
    /\ a.pseudo = Normal
    /\ \/ a.node \in ProperAncestors(d.node)
       \/ d.node = a.node /\ d.pseudo # Normal

\* The handle whose children include h.
ParentHandle(h) ==
    IF h.pseudo # Normal THEN [node |-> h.node, pseudo |-> Normal]
    ELSE [node |-> parent[h.node], pseudo |-> Normal]

\* The nodes from d up to, and without, its ancestor n.
PathBelow(d, n) == {x \in AncestorsOrSelf(parent, d) : n \in ProperAncestors(x)}

\* The nodes whose Normal handle should_prune returned true for, and those
\* whose Normal handle process returned true for, before index i of L.
PrunedBefore(L, i) ==
    {L[k].h.node : k \in {k \in 1..(i - 1) :
        L[k].op = "should_prune" /\ L[k].r /\ L[k].h.pseudo = Normal}}

ProcessedBefore(L, i) ==
    {L[k].h.node : k \in {k \in 1..(i - 1) :
        /\ L[k].op = "process" /\ L[k].h.pseudo = Normal
        /\ k + 1 \in DOMAIN L /\ L[k + 1] = Event("return", L[k].h, TRUE)}}

\* C2: when process is invoked on a handle, process has already been invoked
\* on every descendant of its node that was not pruned away, and no handle
\* below it is processed later.
C2_DescendantsFirst ==
    \A w \in Workers : \A i \in DOMAIN log[w] :
        log[w][i].op = "process" =>
            LET h == log[w][i].h
                pruned == PrunedBefore(log[w], i)
                processed == ProcessedBefore(log[w], i)
            IN /\ h.pseudo = Normal =>
                    \A d \in Nodes :
                        (h.node \in ProperAncestors(d) /\ PathBelow(d, h.node) \cap pruned = {})
                            => d \in processed
               /\ \A j \in DOMAIN log[w] :
                     (log[w][j].op = "process" /\ IsBelow(log[w][j].h, h)) => j < i

\* A traversal that processed its root after two or more descendants, one
\* descendant having been pruned.
C2_Witness ==
    /\ result[1] = Some(TRUE)
    /\ Cardinality({i \in DOMAIN log[1] : log[1][i].op = "process"
                        /\ log[1][i].h.pseudo = Normal}) >= 3
    /\ \E i \in DOMAIN log[1] : log[1][i].op = "should_prune" /\ log[1][i].r

\* The subsequence of the process events of L before index i whose handle
\* has parent handle a.
RECURSIVE ProcessedBeneath(_, _, _)
ProcessedBeneath(L, i, a) ==
    IF i <= 1 THEN <<>>
    ELSE LET e == L[i - 1]
         IN ProcessedBeneath(L, i - 1, a)
              \o (IF e.op = "process" /\ e.h # a /\ ParentHandle(e.h) = a
                  THEN <<e.h>> ELSE <<>>)

Undisturbed(L) ==
    \A k \in DOMAIN L : (L[k].op = "should_prune" => ~L[k].r)
                        /\ (L[k].op = "process" => L[k].r)

\* C3: with no pruning and no failure, the handles processed directly beneath
\* a Normal handle, before it is processed itself, are the elements of its
\* children() in that order: the ::before position first, the ::after
\* position last.
C3_PseudoPositionsTraversed ==
    \A w \in Workers : \A i \in DOMAIN log[w] :
        (Undisturbed(log[w]) /\ log[w][i].op = "process" /\ log[w][i].h.pseudo = Normal)
            => ProcessedBeneath(log[w], i, log[w][i].h) = ExpectedChildren(log[w][i].h.node)

\* The handles traverse_postorder_mut iterates beneath a Normal handle on n.
TraversedKids(n) ==
    LET ld == Unwrap(layout_data[n])
        kids == SetToSeq(ChildSet(n))
    IN (IF IsSome(ld.before_style)
        THEN <<[node |-> n, pseudo |-> Before(Unwrap(ld.before_style).display)]>>
        ELSE <<>>)
       \o [i \in 1..Len(kids) |-> [node |-> kids[i], pseudo |-> Normal]]

\* The visitor call that follows the return of the call on h, h not being the
\* root of the traversal: should_prune on the next kid, or process on the
\* parent after the last kid.
CallAfter(h) ==
    LET a == ParentHandle(h)
        ks == TraversedKids(a.node)
        k == CHOOSE k \in DOMAIN ks : ks[k] = h
    IN IF k < Len(ks) THEN Event("should_prune", ks[k + 1], FALSE)
       ELSE Event("process", a, FALSE)

SameCall(e, f) == e.op = f.op /\ e.h = f.h

\* C4: when should_prune returns true for a handle, the call on it returns
\* true at once, neither should_prune nor process is ever invoked on a handle
\* below it, process is never invoked on it, and the traversal goes on with
\* its next sibling.
C4_PruneSkipsSubtree ==
    \A w \in Workers : \A i \in DOMAIN log[w] :
        (log[w][i].op = "should_prune" /\ log[w][i].r) =>
            /\ i + 1 \in DOMAIN log[w]
            /\ log[w][i + 1] = Event("return", log[w][i].h, TRUE)
            /\ \A j \in DOMAIN log[w] :
                  /\ ~IsBelow(log[w][j].h, log[w][i].h)
                  /\ ~(log[w][j].op = "process" /\ log[w][j].h = log[w][i].h)
            /\ (i + 2 \in DOMAIN log[w]) => SameCall(log[w][i + 2], CallAfter(log[w][i].h))
            /\ (Some(log[w][i].h) = root[w]) => result[w] = Some(TRUE)

\* A pruned handle that has a child and a next sibling, with the traversal
\* gone on to that sibling.
C4_Witness ==
    \E i \in DOMAIN log[1] :
        /\ log[1][i].op = "should_prune" /\ log[1][i].r
        /\ ChildSet(log[1][i].h.node) # {}
        /\ i + 2 \in DOMAIN log[1]
        /\ log[1][i + 2].op = "should_prune"
        /\ IsSome(next_sibling_ref(log[1][i].h.node))
        /\ log[1][i + 2].h.node = Unwrap(next_sibling_ref(log[1][i].h.node))

\* The handles from h up to the root of w's traversal.
RECURSIVE Chain(_, _)
Chain(h, top) == IF h = top THEN <<h>> ELSE <<h>> \o Chain(ParentHandle(h), top)

\* C5: when process returns false for a handle, the call on it returns
\* false, then the call on each enclosing handle up to the root returns false
\* in turn, and neither should_prune nor process is invoked again.
C5_FailurePropagates ==
    \A w \in Workers : \A i \in DOMAIN log[w] :
        (log[w][i].op = "process" /\ ~log[w][i].r) =>
            LET up == Chain(log[w][i].h, Unwrap(root[w]))
                after == SubSeq(log[w], i + 1, Len(log[w]))
            IN /\ Len(after) >= 1
               /\ Len(after) <= Len(up)
               /\ \A k \in DOMAIN after : after[k] = Event("return", up[k], FALSE)
               /\ (stack[w] = <<>>) => (Len(after) = Len(up) /\ result[w] = Some(FALSE))
               /\ (stack[w] # <<>>) => Len(after) < Len(up)

\* A failure two levels below the root, on a handle that has a later sibling,
\* with the whole traversal ended.
C5_Witness ==
    \E i \in DOMAIN log[1] :
        /\ log[1][i].op = "process" /\ ~log[1][i].r
        /\ Len(Chain(log[1][i].h, Unwrap(root[1]))) >= 3
        /\ IsSome(next_sibling_ref(log[1][i].h.node))
        /\ stack[1] = <<>>
        /\ result[1] = Some(FALSE)

\* ------------------------------------------- properties of the borrow check
\* The borrows the client code holds, from the guards it keeps.
ExclusiveHeld(n) == \E w \in Workers : guards[w][n].excl > 0
SharedHeld(n) == \E w \in Workers : guards[w][n].shared > 0
GuardsOn(n) ==
    guards[1][n].shared + guards[1][n].excl + guards[2][n].shared + guards[2][n].excl

\* The accessors that write the layout data; the others read it.
WritingOps == {"initialize_layout_data", "set_restyle_damage", "insert_flags", "remove_flags"}

\* A borrow that conflicts with the access of op: an exclusive borrow
\* conflicts with every access, a shared borrow with a write.
Conflicting(op, n) == ExclusiveHeld(n) \/ (op \in WritingOps /\ SharedHeld(n))

ChecksBorrow(ops) ==
    \A w \in Workers : \A op \in ops : \A arg \in OpArgs(op) :
        (OpApplies(op, hnd[w]) /\ Conflicting(op, hnd[w].node))
            => RunOp(op, hnd[w], arg).panic

\* C8: every accessor of the layout data, called while a conflicting borrow
\* of the layout data of its node is outstanding, aborts instead of completing.
C8_AllAccessesChecked == ~aborted => ChecksBorrow(SideTableOps)

\* The accessors other than flags() abort on a conflicting borrow.
C8_CheckedExceptFlags == ~aborted => ChecksBorrow(SideTableOps \ {"flags"})

\* flags() completes while an exclusive borrow is outstanding.
C8_FlagsUnchecked ==
    \E w \in Workers :
        /\ ~aborted
        /\ ExclusiveHeld(hnd[w].node)
        /\ ~RunOp("flags", hnd[w], {}).panic

\* C9: borrow_layout_data aborts exactly when an exclusive borrow of the node
\* is outstanding, mutate_layout_data aborts exactly when any borrow of the
\* node is outstanding, a borrow attempt is never made to wait for the other
\* borrow to be released, and an exclusive borrow is never live together with
\* another borrow of the same layout data.
C9_BorrowCheckNeverBlocks ==
    /\ \A w \in Workers :
          LET h == hnd[w]
          IN /\ borrow_layout_data(h).panic <=> ExclusiveHeld(h.node)
             /\ mutate_layout_data(h).panic <=> (ExclusiveHeld(h.node) \/ SharedHeld(h.node))
             /\ (~aborted /\ GuardsHeld < MaxGuards)
                    => (ENABLED BorrowGuard(w)) /\ (ENABLED MutateGuard(w))
    /\ \A n \in Nodes : ExclusiveHeld(n) => GuardsOn(n) = 1

\* Worker 2 asked for the exclusive borrow of a node while worker 1 held a
\* shared borrow of it, and the process aborted, the borrow of worker 1 live.
C9_Witness ==
    /\ aborted
    /\ panic_in = Some(PanicInfo(2, "mutate_layout_data", AlreadyBorrowed))
    /\ guards[1][hnd[2].node].shared > 0
    /\ GuardCount(2) = 0

\* ------------------------------------------ properties of parallel traversals
\* The subtree worker w was given.
Subtree(w) == {Unwrap(root[w]).node} \cup Descendants(Unwrap(root[w]).node)

\* The nodes whose layout data w has accessed or can access now: the nodes
\* the traversal has read, and the nodes of the handles the visitor of w, when
\* it is running, can get from the handle it is called with.
InVisitor(w) == Running(w) /\ Top(w).pc \in {"should_prune", "process"}

Accessed(w) ==
    touched[w] \cup (IF InVisitor(w) THEN {t.node : t \in Reach(Top(w).self)} ELSE {})

\* C7: two workers traverse the subtrees of two siblings; the nodes whose
\* layout data a worker accesses are in its own subtree, no node is accessed
\* by both, and the parent of the siblings is accessed by neither.
C7_DisjointSubtrees ==
    /\ \A w \in Workers : Accessed(w) \subseteq Subtree(w)
    /\ Accessed(1) \cap Accessed(2) = {}
    /\ \A w \in Workers : parent[Unwrap(root[1]).node] \notin Accessed(w)

\* Both traversals went through their whole subtrees, one of them through a
\* ::before position and a child node.
C7_Witness ==
    /\ ~aborted
    /\ \A w \in Workers : result[w] = Some(TRUE) /\ touched[w] = Subtree(w)
    /\ Cardinality(touched[1]) > 1
    /\ \E i \in DOMAIN log[1] : is_before(log[1][i].h.pseudo)

\* ------------------------------------------------ properties of the accessors
\* The last call was a call of op that returned.
Returned(op) == IsSome(call) /\ Unwrap(call).op = op /\ ~Unwrap(call).panic

\* The last call was a call of op that panicked.
Panicked(op) == IsSome(call) /\ Unwrap(call).op = op /\ Unwrap(call).panic

NextRealChild(h) ==
    IF is_before(h.pseudo) /\ ChildSet(h.node) # {}
    THEN <<[node |-> SetMin(ChildSet(h.node)), pseudo |-> Normal]>>
    ELSE <<>>

\* C12: children() of a ::before handle yields the first tree child of its
\* node, when there is one, and nothing else; children() of an ::after handle
\* yields nothing; neither yields a ::before or an ::after handle.
C12_PseudoChildren ==
    (IsSome(iter_of) /\ Unwrap(iter_of).pseudo # Normal)
        => /\ IsPrefix(yielded, NextRealChild(Unwrap(iter_of)))
           /\ ended => yielded = NextRealChild(Unwrap(iter_of))
           /\ \A i \in DOMAIN yielded : yielded[i].pseudo = Normal

\* children() of a ::before or an ::after handle yields nothing.
C12_PseudoChildrenEmpty ==
    (IsSome(iter_of) /\ Unwrap(iter_of).pseudo # Normal) => yielded = <<>>

\* The iteration of the children of a ::before handle, whose node has tree
\* children, ended.
C12_BeforeIterationEnded ==
    /\ IsSome(iter_of) /\ is_before(Unwrap(iter_of).pseudo)
    /\ ChildSet(Unwrap(iter_of).node) # {}
    /\ ended

\* ------------------------------------- properties of a stop in one worker
\* A step of the traversal of worker w.
StepOf(w) ==
    \/ \E r \in BOOLEAN : ShouldPrune(w, r)
    \/ FirstChild(w)
    \/ AfterKid(w)
    \/ \E r \in BOOLEAN : Process(w, r)

\* The indices of L at which process was invoked on the Normal handle of n.
ProcessedAt(L, n) ==
    {k \in DOMAIN L : L[k].op = "process" /\ L[k].h = [node |-> n, pseudo |-> Normal]}

\* The traversal of w, which has ended, is the one w makes alone with the
\* answers its visitor gave: it returned false exactly when a process of its
\* own returned false, and when it returned true it had invoked process once
\* on every node of its subtree not pruned away, descendants first.
RanAsAlone(w) ==
    LET L == log[w]
        pruned == PrunedBefore(L, Len(L) + 1)
        sub == Subtree(w)
        kept == {d \in sub : (AncestorsOrSelf(parent, d) \cap sub) \cap pruned = {}}
    IN /\ result[w] = Some(\A k \in DOMAIN L : L[k].op = "process" => L[k].r)
       /\ result[w] = Some(TRUE) =>
             /\ \A d \in sub : Cardinality(ProcessedAt(L, d)) = (IF d \in kept THEN 1 ELSE 0)
             /\ \A a, d \in kept :
                   a \in ProperAncestors(d) =>
                       \A i \in ProcessedAt(L, a), j \in ProcessedAt(L, d) : j < i

\* C13: when the traversal of one worker has returned false, the traversal
\* of the other worker is not halted: it has ended by itself or it can take
\* its next step, and when it ends it has run as it runs alone.
C13_StopIsLocal ==
    \A u, v \in Workers :
        (u # v /\ result[u] = Some(FALSE) /\ ~aborted) =>
            /\ IsSome(result[v]) \/ Running(v)
            /\ Running(v) => ENABLED StepOf(v)
            /\ IsSome(result[v]) => RanAsAlone(v)

\* Worker 1 was stopped by a process that returned false; worker 2 went
\* through its subtree of two or more nodes and returned true.
C13_Witness ==
    /\ result[1] = Some(FALSE)
    /\ \E i \in DOMAIN log[1] : log[1][i].op = "process" /\ ~log[1][i].r
    /\ result[2] = Some(TRUE)
    /\ Cardinality(Subtree(2)) >= 2
    /\ \A d \in Subtree(2) : ProcessedAt(log[2], d) # {}

\* ------------------------------------------- properties of layout_parent_node
\* C14: layout_parent_node aborts when no reflow root is configured; otherwise
\* it returns none for the node that is the reflow root, and the parent node,
\* or none when there is no parent, for every other node.
C14_LayoutParent ==
    (IsSome(call) /\ Unwrap(call).op = "layout_parent_node") =>
        LET c == Unwrap(call)
            n == c.h.node
        IN IF c.arg = None THEN c.panic
           ELSE /\ ~c.panic
                /\ c.val = (IF n = Unwrap(c.arg) \/ parent[n] = 0 THEN None
                            ELSE Some(parent[n]))

\* layout_parent_node was called on a child of the reflow root and returned
\* the reflow root, the reflow root itself having a parent.
C14_Witness ==
    /\ Returned("layout_parent_node")
    /\ LET c == Unwrap(call)
       IN /\ c.val = c.arg
          /\ parent[Unwrap(c.arg)] # 0

\* layout_parent_node was called on the reflow root, which has a parent.
C14_WitnessAtRoot ==
    /\ Returned("layout_parent_node")
    /\ LET c == Unwrap(call)
       IN /\ c.arg = Some(c.h.node)
          /\ parent[c.h.node] # 0

\* -------------------------------------- properties of type_id and is_content
\* C15: type_id returns none for a ::before or an ::after handle and the type
\* of the node for a Normal handle; is_content is false for a ::before or an
\* ::after handle.
C15_PseudoHasNoType ==
    /\ ~Panicked("type_id") /\ ~Panicked("is_content")
    /\ Returned("type_id") =>
          LET c == Unwrap(call)
          IN IF c.h.pseudo = Normal
             THEN c.val = Some(dom[c.h.node].type_id) /\ c.val # None
             ELSE c.val = None
    /\ Returned("is_content") =>
          LET c == Unwrap(call)
          IN c.h.pseudo # Normal => c.val = FALSE

\* type_id was called on the ::after handle of an element.
C15_Witness ==
    /\ Returned("type_id")
    /\ is_after(Unwrap(call).h.pseudo)
    /\ dom[Unwrap(call).h.node].type_id \in ElementTypeIds

\* is_content was called on the ::before handle of an element.
C15_WitnessIsContent ==
    /\ Returned("is_content")
    /\ is_before(Unwrap(call).h.pseudo)
    /\ dom[Unwrap(call).h.node].type_id \in ElementTypeIds

\* ------------------------------------------------ properties of text_content
\* The last call was a call of text_content on a Normal handle.
TextContentOfNode ==
    IsSome(call) /\ Unwrap(call).op = "text_content" /\ Unwrap(call).h.pseudo = Normal

\* C16: text_content on a Normal handle returns the one-element list of the
\* text data of a text node, the one-element list of the value of an input
\* or a textarea element, and aborts on a node of any other type.
C16_TextContentOfNode ==
    TextContentOfNode =>
        LET c == Unwrap(call)
            node == dom[c.h.node]
        IN IF node.type_id \in {"Text", "HTMLInputElement", "HTMLTextAreaElement"}
           THEN ~c.panic /\ c.val = <<node.data>>
           ELSE c.panic

\* text_content of an input element whose value is "hi" returned ["hi"].
C16_Witness ==
    /\ TextContentOfNode
    /\ dom[Unwrap(call).h.node].type_id = "HTMLInputElement"
    /\ ~Unwrap(call).panic
    /\ Unwrap(call).val = << <<"h", "i">> >>

\* text_content of a comment node panicked.
C16_WitnessAbort ==
    /\ TextContentOfNode
    /\ dom[Unwrap(call).h.node].type_id = "Comment"
    /\ Unwrap(call).panic /\ Unwrap(call).msg = NotText

\* The last call was a call of text_content on a ::before or ::after handle.
TextContentOfPseudo ==
    IsSome(call) /\ Unwrap(call).op = "text_content" /\ Unwrap(call).h.pseudo # Normal

\* The generated content of a style: the items of a content list, nothing
\* for the keywords.
GeneratedItems(st) ==
    IF st.content.tag = "Content" /\ Len(st.content.items) > 0 THEN st.content.items
    ELSE <<>>

\* C17: text_content on a ::before handle returns the items of the content of
\* the before style, on an ::after handle those of the after style, the empty
\* list when the content is an empty list or a keyword, whatever the text or
\* the value of the node.
C17_TextContentOfPseudo ==
    TextContentOfPseudo =>
        LET c == Unwrap(call)
            data == Unwrap(c.pre)
            st == IF is_before(c.h.pseudo) THEN Unwrap(data.before_style)
                  ELSE Unwrap(data.after_style)
        IN ~c.panic /\ c.val = GeneratedItems(st)

\* text_content of the ::after handle of an input element with a value
\* returned the two items of the after style, the before style having other
\* content.
C17_Witness ==
    /\ TextContentOfPseudo
    /\ LET c == Unwrap(call)
       IN /\ is_after(c.h.pseudo)
          /\ dom[c.h.node].data # <<>>
          /\ c.val = <<"y", "z">>
          /\ IsSome(Unwrap(c.pre).before_style)
          /\ Unwrap(Unwrap(c.pre).before_style).content = Content(<<"x">>)

\* text_content of a ::before handle whose style has the content keyword
\* `none` returned the empty list.
C17_WitnessKeyword ==
    /\ TextContentOfPseudo
    /\ LET c == Unwrap(call)
       IN /\ is_before(c.h.pseudo)
          /\ Unwrap(Unwrap(c.pre).before_style).content = ContentNone
          /\ c.val = <<>>

\* The last call was a call of is_ignorable_whitespace.
IgnorableWhitespaceCalled == IsSome(call) /\ Unwrap(call).op = "is_ignorable_whitespace"

\* The inherited white-space value of the node of the last call, where its
\* style is resolved.
WhiteSpaceOf(c) ==
    IF IsSome(c.pre) /\ IsSome(Unwrap(c.pre).style)
    THEN Some(Unwrap(Unwrap(c.pre).style).white_space)
    ELSE None

\* C18: is_ignorable_whitespace returns true exactly for a text node whose
\* characters are all whitespace and whose white-space value is normal; it
\* returns false, without a panic, for a node that is not a text node, for text
\* with a character that is not whitespace, and for whitespace text with
\* another white-space value.
C18_IgnorableWhitespace ==
    IgnorableWhitespaceCalled =>
        LET c == Unwrap(call)
            node == dom[c.h.node]
            text == node.type_id = "Text"
            blank == \A i \in 1..Len(node.data) : node.data[i] \in WhitespaceChars
            ws == WhiteSpaceOf(c)
        IN /\ (~c.panic /\ c.val = TRUE) <=> (text /\ blank /\ ws = Some("normal"))
           /\ ~text => ~c.panic /\ c.val = FALSE
           /\ text /\ ~blank => ~c.panic /\ c.val = FALSE
           /\ text /\ blank /\ IsSome(ws) /\ ws # Some("normal") => ~c.panic /\ c.val = FALSE

\* is_ignorable_whitespace returned true for a text node of a newline and a
\* space under white-space normal.
C18_Witness ==
    /\ IgnorableWhitespaceCalled
    /\ LET c == Unwrap(call)
       IN /\ dom[c.h.node].type_id = "Text"
          /\ dom[c.h.node].data = <<"\n", " ">>
          /\ WhiteSpaceOf(c) = Some("normal")
          /\ ~c.panic /\ c.val = TRUE

\* is_ignorable_whitespace returned false for the text "a " under white-space
\* normal.
C18_WitnessNonWhitespace ==
    /\ IgnorableWhitespaceCalled
    /\ LET c == Unwrap(call)
       IN /\ dom[c.h.node].type_id = "Text"
          /\ dom[c.h.node].data = <<"a", " ">>
          /\ WhiteSpaceOf(c) = Some("normal")
          /\ ~c.panic /\ c.val = FALSE

\* is_ignorable_whitespace returned false for whitespace text under
\* white-space pre.
C18_WitnessPre ==
    /\ IgnorableWhitespaceCalled
    /\ LET c == Unwrap(call)
       IN /\ dom[c.h.node].type_id = "Text"
          /\ dom[c.h.node].data = <<" ">>
          /\ WhiteSpaceOf(c) = Some("pre")
          /\ ~c.panic /\ c.val = FALSE

\* The types of the nodes on which a type-specific accessor has a value.
CategoryOf(op) ==
    CASE op \in {"get_input_value", "get_input_size"} -> {"HTMLInputElement"}
      [] op = "image_url" -> {"HTMLImageElement"}
      [] op = "iframe_pipeline_and_subpage_ids" -> {"HTMLIFrameElement"}
      [] op \in {"canvas_width", "canvas_height"} -> {"HTMLCanvasElement"}
      [] op \in {"as_element", "get_unsigned_integer_attribute"} ->
            {"Element", "HTMLInputElement", "HTMLTextAreaElement", "HTMLImageElement",
             "HTMLIFrameElement", "HTMLCanvasElement"}
      [] OTHER -> {}

TypeSpecificOps ==
    {"get_input_value", "get_input_size", "image_url", "iframe_pipeline_and_subpage_ids",
     "canvas_width", "canvas_height", "as_element", "get_unsigned_integer_attribute"}

\* The last call was a call of a type-specific accessor on a node of another
\* category.
WrongCategoryCall(op) ==
    /\ IsSome(call)
    /\ Unwrap(call).op = op
    /\ dom[Unwrap(call).h.node].type_id \notin CategoryOf(op)

\* C19: a type-specific accessor called on a node of the wrong category
\* panics: get_input_value and get_input_size on a node that is not an input,
\* image_url on one that is not an image, iframe_pipeline_and_subpage_ids on
\* one that is not an iframe, canvas_width and canvas_height on one that is not
\* a canvas, as_element and get_unsigned_integer_attribute on one that is not
\* an element.
C19_WrongCategoryAborts ==
    \A op \in TypeSpecificOps : WrongCategoryCall(op) => Unwrap(call).panic /\ aborted

\* get_input_value was called on a text node and panicked.
C19_Witness ==
    /\ WrongCategoryCall("get_input_value")
    /\ dom[Unwrap(call).h.node].type_id = "Text"
    /\ Unwrap(call).panic
    /\ Unwrap(call).msg = NotAnInput

\* canvas_width was called on an image element and panicked.
C19_WitnessCanvas ==
    /\ WrongCategoryCall("canvas_width")
    /\ dom[Unwrap(call).h.node].type_id = "HTMLImageElement"
    /\ Unwrap(call).panic

\* as_element was called on a comment and panicked.
C19_WitnessElement ==
    /\ WrongCategoryCall("as_element")
    /\ dom[Unwrap(call).h.node].type_id = "Comment"
    /\ Unwrap(call).panic

\* The last call was a call of an accessor of the layout data on a node with
\* none attached. text_content reads the layout data for a pseudo-element
\* only, and a node with no layout data has none.
CalledUnattached ==
    /\ IsSome(call)
    /\ Unwrap(call).op \in SideTableOps \ {"text_content"}
    /\ ~IsSome(Unwrap(call).pre)

\* The last call asked for the ::before or the ::after of a node whose layout
\* data is attached and has no style for it.
CalledUnresolved ==
    /\ IsSome(call)
    /\ IsSome(Unwrap(call).pre)
    /\ \/ /\ Unwrap(call).op \in {"get_before_display", "has_before_pseudo"}
          /\ ~IsSome(Unwrap(Unwrap(call).pre).before_style)
       \/ /\ Unwrap(call).op \in {"get_after_display", "has_after_pseudo"}
          /\ ~IsSome(Unwrap(Unwrap(call).pre).after_style)

\* C20: an accessor of the layout data called on a node with no layout data,
\* and an accessor of the ::before or ::after style called on a node with no
\* such style, returns without a panic.
C20_AbsenceRecoverable ==
    CalledUnattached \/ CalledUnresolved => ~Unwrap(call).panic

\* What holds of C20: on a node with no layout data flow_debug_id returns 0
\* and initialize_layout_data attaches fresh data, and on a node with no style
\* for a pseudo-element has_before_pseudo and has_after_pseudo return false;
\* every other such call panics.
C20_AbsenceWhereOptional ==
    /\ CalledUnattached =>
          LET c == Unwrap(call)
          IN CASE c.op = "flow_debug_id" -> ~c.panic /\ c.val = "0"
               [] c.op = "initialize_layout_data" ->
                     ~c.panic /\ layout_data[c.h.node] = Some(FreshLayoutData(c.arg))
               [] OTHER -> c.panic
    /\ CalledUnresolved =>
          LET c == Unwrap(call)
          IN IF c.op \in {"has_before_pseudo", "has_after_pseudo"}
             THEN ~c.panic /\ c.val = FALSE
             ELSE c.panic /\ c.msg = UnwrapNone

\* has_before_pseudo was called on a node with no layout data and panicked.
C20_WitnessUnattached ==
    /\ CalledUnattached
    /\ Unwrap(call).op = "has_before_pseudo"
    /\ Unwrap(call).panic

\* get_after_display was called on a node with layout data and no after style
\* and panicked.
C20_WitnessUnresolved ==
    /\ CalledUnresolved
    /\ Unwrap(call).op = "get_after_display"
    /\ Unwrap(call).panic

\* --------------------------------------------- properties of UnsafeLayoutNode
\* The last call encoded two LayoutNodes.
Encoded == Returned("layout_node_to_unsafe_layout_node")

C21_WitnessSame ==
    /\ Encoded
    /\ Unwrap(call).h.node = Unwrap(call).arg
    /\ Unwrap(call).val.unsafe = Unwrap(call).val.other

\* ------------------------------------------------ properties of LayoutElement
\* The element of node 1 has an href attribute in the empty namespace.
HasHref ==
    \E i \in 1..Len(dom[1].attrs) :
        dom[1].attrs[i].namespace = "" /\ dom[1].attrs[i].local_name = "href"

\* C22: is_link is true exactly for an anchor, area or link element with an
\* href attribute in the empty namespace, is_unvisited_link is the same, and
\* is_visited_link is false.
C22_Links ==
    LET link == dom[1].type_id \in {"HTMLAnchorElement", "HTMLAreaElement",
                                    "HTMLLinkElement"} /\ HasHref
    IN /\ ~Panicked("is_link") /\ ~Panicked("is_unvisited_link")
       /\ ~Panicked("is_visited_link")
       /\ Returned("is_link") => Unwrap(call).val = link
       /\ Returned("is_unvisited_link") => Unwrap(call).val = link
       /\ Returned("is_visited_link") => Unwrap(call).val = FALSE

\* is_unvisited_link returned true for an anchor whose one attribute is
\* href="x".
C22_Witness ==
    /\ Returned("is_unvisited_link")
    /\ dom[1].type_id = "HTMLAnchorElement"
    /\ dom[1].attrs = <<Attr("", "href", "x")>>
    /\ Unwrap(call).val = TRUE

\* is_link returned false for an anchor whose href is in another namespace.
C22_WitnessNamespace ==
    /\ Returned("is_link")
    /\ dom[1].type_id = "HTMLAnchorElement"
    /\ dom[1].attrs = <<Attr("xlink", "href", "x")>>
    /\ Unwrap(call).val = FALSE

\* is_visited_link returned false for an anchor with an href.
C22_WitnessVisited ==
    /\ Returned("is_visited_link")
    /\ dom[1].type_id = "HTMLAnchorElement"
    /\ HasHref
    /\ Unwrap(call).val = FALSE

\* The values of the attributes of the element of node 1 with the name, in
\* the namespace or, for "*", in any namespace.
ValuesOf(ns, name) ==
    {dom[1].attrs[i].value : i \in
        {j \in 1..Len(dom[1].attrs) :
            /\ dom[1].attrs[j].local_name = name
            /\ ns = "*" \/ dom[1].attrs[j].namespace = ns}}

\* C23: match_attr looks the attribute up under the lower-case name for an
\* HTML element in an HTML document and under the name as written otherwise;
\* with a namespace it returns the test of the value of the attribute of that
\* namespace and name, false when there is none; with any namespace it
\* returns true exactly when the test holds of a value of an attribute of the
\* name.
C23_MatchAttr ==
    /\ ~Panicked("match_attr")
    /\ Returned("match_attr") =>
          LET c == Unwrap(call)
              attr == c.arg[1]
              test == c.arg[2]
              name == IF dom[1].html_in_html THEN attr.lower_name ELSE attr.name
              ns == IF attr.namespace.kind = "Specific" THEN attr.namespace.ns ELSE "*"
          IN c.val = (ValuesOf(ns, name) \cap test # {})

\* match_attr of [Href] in the empty namespace matched the attribute href of
\* an HTML element in an HTML document.
C23_Witness ==
    /\ Returned("match_attr")
    /\ dom[1].html_in_html
    /\ dom[1].attrs = <<Attr("", "href", "x")>>
    /\ Unwrap(call).arg = <<AttrSelector("Href", Specific("")), {"x"}>>
    /\ Unwrap(call).val = TRUE

\* The same selector did not match the attribute href of an element that is
\* not an HTML element in an HTML document.
C23_WitnessCase ==
    /\ Returned("match_attr")
    /\ ~dom[1].html_in_html
    /\ dom[1].attrs = <<Attr("", "href", "x")>>
    /\ Unwrap(call).arg = <<AttrSelector("Href", Specific("")), {"x"}>>
    /\ Unwrap(call).val = FALSE

\* match_attr in any namespace matched by the second of two attributes of the
\* name, the first failing the test.
C23_WitnessAny ==
    /\ Returned("match_attr")
    /\ dom[1].attrs = <<Attr("", "href", "y"), Attr("xlink", "href", "x")>>
    /\ Unwrap(call).arg = <<AttrSelector("href", NamespaceAny), {"x"}>>
    /\ Unwrap(call).val = TRUE

\* match_attr with a namespace returned false for an element with the
\* attribute in another namespace only.
C23_WitnessAbsent ==
    /\ Returned("match_attr")
    /\ dom[1].attrs = <<Attr("xlink", "href", "x")>>
    /\ Unwrap(call).arg = <<AttrSelector("href", Specific("")), {"x", "y"}>>
    /\ Unwrap(call).val = FALSE

\* ------------------------------------------- properties of traverse_preorder
\* The preorder listing of the subtree of n in document order: n, then the
\* listings of its children from the first to the last.
RECURSIVE PreorderOf(_)
RECURSIVE PreorderOfAll(_)
PreorderOf(n) == <<n>> \o PreorderOfAll(ChildSet(n))
PreorderOfAll(S) ==
    IF S = {} THEN <<>>
    ELSE PreorderOf(SetMin(S)) \o PreorderOfAll(S \ {SetMin(S)})

\* C24: the nodes traverse_preorder() has yielded are the start of the
\* preorder listing of the subtree of its node; the iterator is at its end,
\* and next() returns none, exactly when it has yielded the whole listing,
\* which has every node of the subtree once and no other node.
C24_PreorderListing ==
    /\ IsPrefix(pre_out, PreorderOf(pre_root))
    /\ pre_stack = <<>> <=> pre_out = PreorderOf(pre_root)
    /\ LayoutTreeIterator_next(pre_stack).val = None <=> pre_out = PreorderOf(pre_root)
    /\ pre_stack = <<>> =>
          /\ Len(pre_out) = Cardinality({pre_root} \cup Descendants(pre_root))
          /\ {pre_out[i] : i \in DOMAIN pre_out} = {pre_root} \cup Descendants(pre_root)

\* A finished traversal from a node with a parent and two children, the first
\* child yielded before the second.
C24_Witness ==
    /\ pre_stack = <<>>
    /\ parent[pre_root] # 0
    /\ Len(pre_out) = 3
    /\ parent[pre_out[2]] = pre_root /\ parent[pre_out[3]] = pre_root
    /\ pre_out[2] < pre_out[3]

\* A finished traversal of a whole tree with a grandchild and a second child
\* of the root.
C24_WitnessDeep ==
    /\ pre_stack = <<>>
    /\ parent[pre_root] = 0
    /\ Len(pre_out) = MaxNodes
    /\ \E i \in 2..MaxNodes : parent[parent[i]] = pre_root
    /\ Cardinality(ChildSet(pre_root)) >= 2

\* ------------------------------- the visitor calls of traverse_postorder_mut
\* The indices of L at which op was invoked on h.
CallsOf(L, op, h) == {i \in DOMAIN L : L[i].op = op /\ L[i].h = h}

\* C25: should_prune is invoked once on each handle the traversal reaches,
\* before any visitor call on a handle below it; process is invoked on a handle
\* at most once, after should_prune returned false for it, after the traversal
\* of each child node of its node returned true, and with no traversal of a
\* child having returned false.
C25_VisitorProtocol ==
    \A w \in Workers :
        LET L == log[w]
        IN /\ \A i \in DOMAIN L :
                 /\ Cardinality(CallsOf(L, "should_prune", L[i].h)) = 1
                 /\ Cardinality(CallsOf(L, "process", L[i].h)) <= 1
                 /\ \A j \in DOMAIN L :
                       (L[i].op = "should_prune" /\ IsBelow(L[j].h, L[i].h)) => i < j
                 /\ L[i].op = "process" =>
                       /\ \E k \in 1..(i - 1) : L[k] = Event("should_prune", L[i].h, FALSE)
                       /\ \A k \in 1..(i - 1) :
                             (L[k].op = "return" /\ L[k].h # L[i].h
                                 /\ ParentHandle(L[k].h) = L[i].h) => L[k].r
                       /\ L[i].h.pseudo = Normal =>
                             \A c \in ChildSet(L[i].h.node) : \E k \in 1..(i - 1) :
                                 L[k] = Event("return", ThreadSafeLayoutNode_new(c), TRUE)
           /\ \A f \in DOMAIN stack[w] :
                 Cardinality(CallsOf(L, "should_prune", stack[w][f].self))
                    = (IF stack[w][f].pc = "should_prune" THEN 0 ELSE 1)

\* process was invoked on a handle with two child nodes, one of them with a
\* child of its own, after should_prune had been invoked on all four.
C25_Witness ==
    \E i \in DOMAIN log[1] :
        /\ log[1][i].op = "process"
        /\ Cardinality(ChildSet(log[1][i].h.node)) = 2
        /\ \E c \in ChildSet(log[1][i].h.node) : ChildSet(c) # {}
        /\ Cardinality({k \in 1..(i - 1) : log[1][k].op = "should_prune"}) >= 4

\* ------------------------------- the result of traverse_postorder_mut
\* The outermost call of worker 1 has returned.
Returned1 == IsSome(result[1])

\* The process calls of worker 1 that returned false.
FailedCalls == {i \in DOMAIN log[1] : log[1][i].op = "process" /\ ~log[1][i].r}

\* The result of a traversal that has returned is true exactly when no
\* process call returned false; it is true with no process call when the
\* root was pruned, and the result of process on the root when that was
\* called.
ResultOfTraversal ==
    Returned1 =>
        LET L == log[1]
            r == Unwrap(root[1])
        IN /\ Unwrap(result[1]) <=> FailedCalls = {}
           /\ L[1] = Event("should_prune", r, TRUE) =>
                 /\ Unwrap(result[1])
                 /\ \A i \in DOMAIN L : L[i].op # "process"
           /\ \A i \in DOMAIN L :
                 (L[i].op = "process" /\ L[i].h = r) => Unwrap(result[1]) = L[i].r

\* C26: traverse_postorder_mut returns, and it returns true exactly when no
\* process call of the traversal returned false: true with no process call
\* when the root is pruned, the result of process on the root when the
\* traversal gets that far.
C26_TerminatesWithResult == []ResultOfTraversal /\ <>Returned1

\* A traversal returned false after process failed on a descendant of the
\* root, the root not being processed.
C26_Witness ==
    /\ result[1] = Some(FALSE)
    /\ \E i \in FailedCalls : log[1][i].h # Unwrap(root[1])
    /\ \A i \in DOMAIN log[1] :
          log[1][i].op = "process" => log[1][i].h # Unwrap(root[1])

\* A traversal whose root was pruned returned true.
C26_WitnessPruned ==
    /\ result[1] = Some(TRUE)
    /\ log[1][1] = Event("should_prune", Unwrap(root[1]), TRUE)
    /\ ChildSet(Unwrap(root[1]).node) # {}

\* A traversal returned the true of process on its root after three other
\* process calls.
C26_WitnessCompleted ==
    /\ result[1] = Some(TRUE)
    /\ Cardinality({i \in DOMAIN log[1] : log[1][i].op = "process"}) >= 4

\* ------------------------------------- iterating the children under a borrow
\* The client holds a Ref of the layout data of the node of its handle, which
\* is attached.
SharedOnStart == borrow[start.node] > 0 /\ IsSome(layout_data[start.node])

StartHasBefore == IsSome(Unwrap(layout_data[start.node]).before_style)
StartHasAfter == IsSome(Unwrap(layout_data[start.node]).after_style)

\* The last call was a display getter on a node with a borrow outstanding.
DisplayUnderBorrow ==
    /\ IsSome(call)
    /\ Unwrap(call).op \in {"get_normal_display", "get_before_display",
                              "get_after_display"}
    /\ borrow[Unwrap(call).h.node] # 0

\* C27: a display getter panics when a Ref or a RefMut of the layout data of
\* its node is outstanding. Under a Ref held by the caller, children() on a
\* node with a before style panics, children() on a node with an after style
\* panics before its end, and on a node with neither style the iteration runs
\* to its end.
C27_DisplayGettersExclusive ==
    /\ DisplayUnderBorrow =>
          Unwrap(call).panic /\ Unwrap(call).msg = AlreadyBorrowed
    /\ (SharedOnStart /\ StartHasBefore) => iter_of # Some(start)
    /\ (SharedOnStart /\ StartHasAfter /\ iter_of = Some(start)) => ~ended
    /\ (SharedOnStart /\ ~StartHasBefore /\ ~StartHasAfter /\ call = None) => ~aborted

\* children() on a node with a before style panicked under a Ref of the
\* caller: nothing else was called.
C27_Witness ==
    /\ SharedOnStart /\ StartHasBefore
    /\ aborted /\ call = None /\ iter = None

\* The iteration of the children of a node with an after style and two child
\* nodes panicked under a Ref of the caller after the two.
C27_WitnessAfter ==
    /\ SharedOnStart /\ StartHasAfter /\ ~StartHasBefore
    /\ aborted /\ call = None /\ iter_of = Some(start)
    /\ Len(yielded) = 2

\* The iteration of the children of a node with neither style ended under a
\* Ref of the caller after two child nodes.
C27_WitnessNeither ==
    /\ SharedOnStart /\ ~StartHasBefore /\ ~StartHasAfter
    /\ ~aborted /\ ended /\ iter_of = Some(start)
    /\ Len(yielded) = 2

\* get_normal_display panicked under a Ref of the caller.
C27_WitnessGetter ==
    /\ DisplayUnderBorrow
    /\ Unwrap(call).op = "get_normal_display"
    /\ borrow[start.node] = 1
    /\ Unwrap(call).panic

\* ------------------------------------------- the end of the children iterator
\* The positions of yielded at which an ::after handle stands.
AfterYields == {i \in DOMAIN yielded : is_after(yielded[i].pseudo)}

\* An ::after handle is yielded once at most, as the last item, and a finished
\* iteration of an attached Normal handle with an after style has yielded it.
AfterYieldedLast ==
    /\ AfterYields \subseteq {Len(yielded)}
    /\ (ended /\ Unwrap(iter_of).pseudo = Normal
           /\ IsSome(Unwrap(layout_data[Unwrap(iter_of).node]).after_style))
          => AfterYields = {Len(yielded)}

\* After next() has returned none, a call of next() on the same iterator
\* yields nothing and leaves the iterator at its end.
StaysEnded ==
    (ended /\ yielded' # yielded) => (yielded' = <<>> /\ ~ended')

\* C28: once next() has returned none it returns none for ever, and the
\* ::after handle, when there is one, is returned by one call only, the last
\* before the first none.
C28_FusedAfterOnce == []AfterYieldedLast /\ [][StaysEnded]_vars

\* An iteration yielded two child nodes and the ::after handle, then ended,
\* and next() has been called again.
C28_Witness ==
    /\ ended
    /\ Len(yielded) = 3
    /\ AfterYields = {3}
    /\ ChildrenIterator_next(Unwrap(iter)).val = None
    /\ ChildrenIterator_next(Unwrap(iter)).it = Unwrap(iter)

\* ----------------------------------- properties of the walk to the reflow root
\* A walk with a reflow root configured is under way: its calls so far.
Walking == IsSome(call) /\ IsSome(Unwrap(call).arg)

\* The nodes of the subtree of the reflow root of the walk.
ReflowSubtree ==
    LET r == Unwrap(Unwrap(call).arg)
    IN IF r \in Nodes THEN {r} \cup Descendants(r) ELSE {}

\* The walk goes from each node to its parent; from a node of the subtree of
\* the reflow root it stays in that subtree and gets none at the reflow root
\* and nowhere else; from a node outside it gets none at the root of the
\* document and nowhere else.
WalkStaysBelowRoot ==
    Walking =>
        LET c == Unwrap(call)
            w == c.walk
            last == w[Len(w)]
        IN /\ ~c.panic
           /\ \A i \in 1..(Len(w) - 1) : w[i + 1] = parent[w[i]]
           /\ w[1] \in ReflowSubtree =>
                 /\ \A i \in DOMAIN w : w[i] \in ReflowSubtree
                 /\ c.val = None <=> last = Unwrap(c.arg)
           /\ w[1] \notin ReflowSubtree => (c.val = None <=> parent[last] = 0)

\* The walk has come to its end: a call has returned none.
WalkEnded == IsSome(call) /\ (Unwrap(call).panic \/ Unwrap(call).val = None)

\* C29: with a reflow root configured, the walk by layout_parent_node from a
\* node of the subtree of the reflow root ends with none at the reflow root
\* and yields no node outside that subtree; from a node outside, it follows
\* the parents and ends with none at the root of the document.
C29_WalkEndsAtRoot == []WalkStaysBelowRoot /\ <>WalkEnded

\* A walk of three calls from a grandchild of the reflow root, which has a
\* parent, ended at the reflow root.
C29_Witness ==
    /\ Walking /\ WalkEnded
    /\ Len(Unwrap(call).walk) = 3
    /\ Unwrap(call).walk[3] = Unwrap(Unwrap(call).arg)
    /\ parent[Unwrap(call).walk[3]] # 0

\* A walk from a node outside the subtree of the reflow root ended at the
\* root of the document after passing the parent of the reflow root.
C29_WitnessOutside ==
    /\ Walking /\ WalkEnded
    /\ Unwrap(Unwrap(call).arg) \in Nodes
    /\ Unwrap(call).walk[1] \notin ReflowSubtree
    /\ Len(Unwrap(call).walk) >= 2
    /\ parent[Unwrap(call).walk[Len(Unwrap(call).walk)]] = 0

\* --------------------------------------- the identity of the handles yielded
\* C30: the ::before and ::after handles that the children() of a handle
\* yields have the opaque() and the debug_id() of that handle, and the child
\* nodes it yields have an opaque() other than that of the handle and than
\* that of each other.
C30_PseudoSharesIdentity ==
    IsSome(iter_of) =>
        LET N == Unwrap(iter_of)
        IN \A i \in DOMAIN yielded :
              IF yielded[i].pseudo # Normal
              THEN /\ ThreadSafeLayoutNode_opaque(yielded[i]) = ThreadSafeLayoutNode_opaque(N)
                   /\ debug_id(yielded[i]) = debug_id(N)
              ELSE /\ ThreadSafeLayoutNode_opaque(yielded[i]) # ThreadSafeLayoutNode_opaque(N)
                   /\ \A j \in DOMAIN yielded :
                         (j # i /\ yielded[j].pseudo = Normal) =>
                             ThreadSafeLayoutNode_opaque(yielded[j])
                                # ThreadSafeLayoutNode_opaque(yielded[i])

\* An iteration yielded a ::before handle, two child nodes and an ::after
\* handle: the first and the last with the identity of the node iterated, the
\* two between with two others.
C30_Witness ==
    /\ IsSome(iter_of) /\ ended
    /\ Len(yielded) = 4
    /\ is_before(yielded[1].pseudo) /\ is_after(yielded[4].pseudo)
    /\ ThreadSafeLayoutNode_opaque(yielded[1]) = ThreadSafeLayoutNode_opaque(yielded[4])
    /\ ThreadSafeLayoutNode_opaque(yielded[2]) # ThreadSafeLayoutNode_opaque(yielded[3])

====
